---- MODULE Spec2Model ----
(***************************************************************************)
(* calpersonal: a terminal calendar whose UI thread (App::run) handles one *)
(* key per tick, drains the completion channels (check_updates) and starts *)
(* refreshes, while tokio tasks fetch from / mutate the remote store.      *)
(*                                                                         *)
(* Conventions                                                             *)
(*   Option<T>      <<>> is None, <<v>> is Some(v)                         *)
(*   String         a sequence of one-codepoint strings                    *)
(*   NaiveDate      a record [y, m, d]                                     *)
(*   HashMap<K,V>   a function whose DOMAIN is the set of present keys     *)
(*   struct App     the record `app`; a handler is an operator from the    *)
(*                  record before the call to the record after it          *)
(*   tokio::spawn   appends a task descriptor to app.spawned; the action   *)
(*                  that ran the handler moves it into the task pools      *)
(* Fields of `app` whose name starts with g_ are history (ghost) fields:   *)
(* no handler reads them to decide anything.                               *)
(***************************************************************************)
EXTENDS Integers, Sequences, FiniteSets, TLC

\* ------------------------------------------------------------------ bounds
\* manual refresh intents ('R') accepted in one run (SpecRefresh)
MaxManual == 1
\* mutations dispatched in one run (SpecMutate)
MaxMutations == 2
\* mutations dispatched in one run (SpecEdit)
MaxEditMutations == 1
\* codepoints typed into the edit buffer (Spec)
MaxBuf == 1
\* cap of cursor_line when move_down runs on an empty list in a build
\* without overflow checks (len - 1 wraps to usize::MAX)
MaxCursor == 1
\* days by which the viewport date can move away from today
NavDays == 0
\* months by which the viewport can move away from today's (SpecGrid)
GridMonths == 60

\* ------------------------------------------------------- calendar dates
IsLeap(y) == (y % 4 = 0 /\ y % 100 # 0) \/ y % 400 = 0

DaysInMonth(y, m) ==
    IF m = 2 THEN (IF IsLeap(y) THEN 29 ELSE 28)
    ELSE IF m \in {4, 6, 9, 11} THEN 30 ELSE 31

Date(y, m, d) == [y |-> y, m |-> m, d |-> d]

\* NaiveDate::succ_opt / pred_opt
Succ(dt) ==
    IF dt.d < DaysInMonth(dt.y, dt.m) THEN Date(dt.y, dt.m, dt.d + 1)
    ELSE IF dt.m < 12 THEN Date(dt.y, dt.m + 1, 1)
    ELSE Date(dt.y + 1, 1, 1)

Pred(dt) ==
    IF dt.d > 1 THEN Date(dt.y, dt.m, dt.d - 1)
    ELSE IF dt.m > 1 THEN Date(dt.y, dt.m - 1, DaysInMonth(dt.y, dt.m - 1))
    ELSE Date(dt.y - 1, 12, 31)

RECURSIVE AddDays(_, _)
AddDays(dt, n) ==
    IF n = 0 THEN dt
    ELSE IF n > 0 THEN AddDays(Succ(dt), n - 1)
    ELSE AddDays(Pred(dt), n + 1)

RECURSIVE DaysBeforeMonth(_, _)
DaysBeforeMonth(y, m) ==
    IF m = 1 THEN 0 ELSE DaysBeforeMonth(y, m - 1) + DaysInMonth(y, m - 1)

\* Datelike::num_days_from_ce: 0001-01-01 is day 1
DayNum(dt) ==
    365 * (dt.y - 1) + ((dt.y - 1) \div 4) - ((dt.y - 1) \div 100)
      + ((dt.y - 1) \div 400) + DaysBeforeMonth(dt.y, dt.m) + dt.d

\* weekday().num_days_from_sunday(): day 1 of the common era is a Monday
WeekdayFromSunday(dt) == DayNum(dt) % 7

\* checked_add_months / checked_sub_months: the day is clamped to the
\* length of the target month
AddMonths(dt, n) ==
    LET idx == dt.y * 12 + (dt.m - 1) + n
        y2  == idx \div 12
        m2  == (idx % 12) + 1
        len == DaysInMonth(y2, m2)
    IN Date(y2, m2, IF dt.d > len THEN len ELSE dt.d)

\* ------------------------------------------------------------ the remote
Today == Date(2021, 2, 14)

Calendars == <<"primary", "work">>
TaskLists == <<"list1">>

Some(v) == <<v>>
NoneV == <<>>

\* the element of a one-element set: { f(x) : x \in {e} } evaluates e once
\* however often f reads x
The(S) == CHOOSE x \in S : TRUE

\* the remote store when the process starts: one titled event today in
\* the primary calendar, one untitled event tomorrow in the second
\* calendar, one open task
InitRemoteEvents ==
    [c \in {"primary", "work"} |->
        IF c = "primary"
        THEN << [id |-> Some(1), summary |-> Some(<<"x">>),
                 start |-> Some([date |-> Some(Today), date_time |-> NoneV])] >>
        ELSE << [id |-> Some(2), summary |-> NoneV,
                 start |-> Some([date |-> Some(Succ(Today)),
                                 date_time |-> NoneV])] >>]

InitRemoteTasks ==
    [l \in {"list1"} |->
        << [id |-> Some(1), title |-> Some(<<"x">>),
            status |-> Some("needsAction")] >>]

RECURSIVE SeqToSet(_)
SeqToSet(s) == IF s = <<>> THEN {} ELSE {Head(s)} \cup SeqToSet(Tail(s))

\* map.entry(date).or_default().push(x)
MapPush(m, k, x) ==
    IF k \in DOMAIN m THEN [m EXCEPT ![k] = Append(@, x)]
    ELSE [j \in DOMAIN m \cup {k} |-> IF j = k THEN <<x>> ELSE m[j]]

EmptyMap == [k \in {} |-> <<>>]

\* ------------------------------------------------------------ strings
IsSpace(ch) == ch = " "

RECURSIVE TrimStart(_)
TrimStart(s) ==
    IF s # <<>> /\ IsSpace(Head(s)) THEN TrimStart(Tail(s)) ELSE s

RECURSIVE TrimEnd(_)
TrimEnd(s) ==
    IF s # <<>> /\ IsSpace(s[Len(s)])
    THEN TrimEnd(SubSeq(s, 1, Len(s) - 1)) ELSE s

\* str::trim
Trim(s) == TrimEnd(TrimStart(s))

\* ------------------------------------------------- parse_input.rs: text
DigitChars == <<"0", "1", "2", "3", "4", "5", "6", "7", "8", "9">>

IsDigit(ch) == \E i \in DOMAIN DigitChars : DigitChars[i] = ch

DigitVal(ch) == (CHOOSE i \in DOMAIN DigitChars : DigitChars[i] = ch) - 1

\* the value of a string of decimal digits
RECURSIVE ParseNumber(_)
ParseNumber(s) ==
    IF s = <<>> THEN 0
    ELSE ParseNumber(SubSeq(s, 1, Len(s) - 1)) * 10 + DigitVal(s[Len(s)])

\* i32::to_string of a year that is not negative
RECURSIVE to_string(_)
to_string(n) ==
    IF n < 10 THEN <<DigitChars[n + 1]>>
    ELSE Append(to_string(n \div 10), DigitChars[(n % 10) + 1])

\* The regex engine.  A position is the number of characters consumed; an
\* operator takes the positions a match can have reached and gives those
\* it can reach after one more piece of the pattern.
\* \d{lo,hi}
ReDigits(s, P, lo, hi) ==
    UNION { { p + k : k \in { j \in lo..hi :
                                /\ p + j <= Len(s)
                                /\ \A i \in (p + 1)..(p + j) : IsDigit(s[i]) } } :
            p \in P }

\* one literal character
ReChar(s, P, ch) == { p + 1 : p \in { q \in P : q < Len(s) /\ s[q + 1] = ch } }

\* \s
ReSpace(s, P) == { p + 1 : p \in { q \in P : q < Len(s) /\ IsSpace(s[q + 1]) } }

\* \s+
ReSpaces(s, P) ==
    UNION { { p + k : k \in { j \in 1..(Len(s) - p) :
                                \A i \in (p + 1)..(p + j) : IsSpace(s[i]) } } :
            p \in P }

\* the pieces the seven patterns are made of
RePart(s, P, part) ==
    CASE part = "(\\d{1,2}:\\d{2})" ->
            ReDigits(s, ReChar(s, ReDigits(s, P, 1, 2), ":"), 2, 2)
      [] part = "(\\d{1,2}/\\d{1,2})" ->
            ReDigits(s, ReChar(s, ReDigits(s, P, 1, 2), "/"), 1, 2)
      [] part = "(\\d{4}/\\d{1,2}/\\d{1,2})" ->
            ReDigits(s, ReChar(s,
                ReDigits(s, ReChar(s, ReDigits(s, P, 4, 4), "/"), 1, 2), "/"), 1, 2)
      [] part = "\\s+-\\s+" -> ReSpaces(s, ReChar(s, ReSpaces(s, P), "-"))
      [] part = "\\s+" -> ReSpaces(s, P)
      [] part = "\\s" -> ReSpace(s, P)

IsGroup(part) ==
    part \in {"(\\d{1,2}:\\d{2})", "(\\d{1,2}/\\d{1,2})", "(\\d{4}/\\d{1,2}/\\d{1,2})"}

\* the matches of the pieces `parts` from position p on: the text of each
\* capture group and the position where the match ends
RECURSIVE ReMatches(_, _, _, _)
ReMatches(s, parts, p, groups) ==
    IF parts = <<>> THEN { [groups |-> groups, end |-> p] }
    ELSE UNION { ReMatches(s, Tail(parts), q,
                           IF IsGroup(Head(parts))
                           THEN Append(groups, SubSeq(s, p + 1, q))
                           ELSE groups) :
                 q \in RePart(s, {p}, Head(parts)) }

\* the patterns of parse_time_range, every one anchored by ^
time_re == << "(\\d{1,2}:\\d{2})", "\\s+-\\s+", "(\\d{1,2}:\\d{2})", "\\s" >>
date_time_re ==
    << "(\\d{1,2}/\\d{1,2})", "\\s+", "(\\d{1,2}:\\d{2})", "\\s+-\\s+",
       "(\\d{1,2}:\\d{2})", "\\s" >>
year_date_time_re ==
    << "(\\d{4}/\\d{1,2}/\\d{1,2})", "\\s+", "(\\d{1,2}:\\d{2})", "\\s+-\\s+",
       "(\\d{1,2}:\\d{2})", "\\s" >>
date_re == << "(\\d{1,2}/\\d{1,2})", "\\s+-\\s+", "(\\d{1,2}/\\d{1,2})", "\\s" >>
year_date_re ==
    << "(\\d{4}/\\d{1,2}/\\d{1,2})", "\\s+-\\s+", "(\\d{4}/\\d{1,2}/\\d{1,2})", "\\s" >>
only_date_re == << "(\\d{1,2}/\\d{1,2})", "\\s" >>
only_year_date_re == << "(\\d{4}/\\d{1,2}/\\d{1,2})", "\\s" >>

\* Regex::captures: None, or the match (in these patterns every digit run
\* and every whitespace run is followed by a character outside its class,
\* so a text has at most one match and the longest is the only one)
captures(re, s) ==
    The({ IF ms = {} THEN NoneV
          ELSE Some(CHOOSE m \in ms : \A n \in ms : n.end <= m.end) :
            ms \in {ReMatches(s, re, 0, <<>>)} })

\* chrono's parse_from_str for formats made of numeric items and literals:
\* a numeric item takes the digits that follow, at least one and at most
\* its width (4 for %Y without a sign, 2 for the others, padding ignored);
\* a literal must be the next character; nothing may be left over
NumericItems == {"%Y", "%m", "%d", "%H", "%M"}

LeadingDigits(s, width) ==
    CHOOSE n \in 0..width :
        /\ n <= Len(s)
        /\ \A i \in 1..n : IsDigit(s[i])
        /\ n = width \/ n = Len(s) \/ ~IsDigit(s[n + 1])

RECURSIVE Scan(_, _, _)
Scan(s, items, parsed) ==
    IF items = <<>> THEN (IF s = <<>> THEN Some(parsed) ELSE NoneV)
    ELSE IF Head(items) \in NumericItems
    THEN The({ IF n = 0 THEN NoneV
               ELSE The({ Scan(rest, Tail(items), fields) :
                            rest \in {SubSeq(s, n + 1, Len(s))},
                            fields \in {[parsed EXCEPT ![Head(items)] =
                                            ParseNumber(SubSeq(s, 1, n))]} }) :
               n \in {LeadingDigits(s, IF Head(items) = "%Y" THEN 4 ELSE 2)} })
    ELSE IF s # <<>> /\ Head(s) = Head(items)
    THEN The({ Scan(rest, Tail(items), parsed) : rest \in {Tail(s)} })
    ELSE NoneV

NothingParsed == [it \in NumericItems |-> 0]

ValidDate(f) == f["%m"] \in 1..12 /\ f["%d"] \in 1..DaysInMonth(f["%Y"], f["%m"])

ValidTime(f) == f["%H"] <= 23 /\ f["%M"] <= 59

\* NaiveTime::parse_from_str
NaiveTime_parse_from_str(s, fmt) ==
    The({ IF r # NoneV /\ ValidTime(r[1])
          THEN Some([h |-> r[1]["%H"], mi |-> r[1]["%M"]]) ELSE NoneV :
            r \in {Scan(s, fmt, NothingParsed)} })

\* NaiveDate::parse_from_str
NaiveDate_parse_from_str(s, fmt) ==
    The({ IF r # NoneV /\ ValidDate(r[1])
          THEN Some(Date(r[1]["%Y"], r[1]["%m"], r[1]["%d"])) ELSE NoneV :
            r \in {Scan(s, fmt, NothingParsed)} })

\* NaiveDateTime::parse_from_str
NaiveDateTime_parse_from_str(s, fmt) ==
    The({ IF r # NoneV /\ ValidDate(r[1]) /\ ValidTime(r[1])
          THEN Some([date |-> Date(r[1]["%Y"], r[1]["%m"], r[1]["%d"]),
                     h |-> r[1]["%H"], mi |-> r[1]["%M"]])
          ELSE NoneV :
            r \in {Scan(s, fmt, NothingParsed)} })

\* NaiveDateTime::new
NaiveDateTime_new(date, time) == [date |-> date, h |-> time.h, mi |-> time.mi]

\* the tuple parse_time_range returns
ParsedRange(summary, start, end, start_date, end_date) ==
    [summary |-> summary, start |-> start, end |-> end,
     start_date |-> start_date, end_date |-> end_date]

\* the whole text dropped, with no title left
Unparsed_no_title(input) == ParsedRange(<<>>, NoneV, NoneV, NoneV, NoneV)

\* the last line of parse_time_range: the whole text as the title
Unparsed(input) == ParsedRange(input, NoneV, NoneV, NoneV, NoneV)

\* input[caps.get(0).end()..].trim()
SummaryAfter(input, caps) == Trim(SubSeq(input, caps.end + 1, Len(input)))

\* the body of each arm of parse_time_range: the values of the captures
\* are parsed first, and the arm returns only if they parsed
TimeArm(input, caps, current_date) ==
    The({ IF start # NoneV /\ end # NoneV
          THEN ParsedRange(SummaryAfter(input, caps),
                           Some(NaiveDateTime_new(current_date, start[1])),
                           Some(NaiveDateTime_new(current_date, end[1])),
                           NoneV, NoneV)
          ELSE Unparsed(input) :
            start \in {NaiveTime_parse_from_str(caps.groups[1], <<"%H", ":", "%M">>)},
            end \in {NaiveTime_parse_from_str(caps.groups[2], <<"%H", ":", "%M">>)} })

\* the date_time_re arm with the typed date ignored
DateTimeArm_on_context_date(input, caps, current_date) ==
    TimeArm(input, [caps EXCEPT !.groups = Tail(@)], current_date)

DateTimeFormat == <<"%Y", "/", "%m", "/", "%d", ":", "%H", ":", "%M">>

DateTimeArm(input, caps, current_date) ==
    The({ IF start # NoneV /\ end # NoneV
          THEN ParsedRange(SummaryAfter(input, caps), start, end, NoneV, NoneV)
          ELSE Unparsed(input) :
            start \in {NaiveDateTime_parse_from_str(
                          to_string(current_date.y) \o <<"/">> \o caps.groups[1]
                             \o <<":">> \o caps.groups[2], DateTimeFormat)},
            end \in {NaiveDateTime_parse_from_str(
                        to_string(current_date.y) \o <<"/">> \o caps.groups[1]
                           \o <<":">> \o caps.groups[3], DateTimeFormat)} })

YearDateTimeArm(input, caps) ==
    The({ IF start # NoneV /\ end # NoneV
          THEN ParsedRange(SummaryAfter(input, caps), start, end, NoneV, NoneV)
          ELSE Unparsed(input) :
            start \in {NaiveDateTime_parse_from_str(
                          caps.groups[1] \o <<":">> \o caps.groups[2], DateTimeFormat)},
            end \in {NaiveDateTime_parse_from_str(
                        caps.groups[1] \o <<":">> \o caps.groups[3], DateTimeFormat)} })

DateFormat == <<"%Y", "/", "%m", "/", "%d">>

DateArm(input, caps, current_date) ==
    The({ IF start # NoneV /\ end # NoneV
          THEN ParsedRange(SummaryAfter(input, caps), NoneV, NoneV, start, end)
          ELSE Unparsed(input) :
            start \in {NaiveDate_parse_from_str(
                          to_string(current_date.y) \o caps.groups[1],
                          <<"%Y", "%m", "/", "%d">>)},
            end \in {NaiveDate_parse_from_str(
                        to_string(current_date.y) \o caps.groups[2],
                        <<"%Y", "%m", "/", "%d">>)} })

YearDateArm(input, caps) ==
    The({ IF start # NoneV /\ end # NoneV
          THEN ParsedRange(SummaryAfter(input, caps), NoneV, NoneV, start, end)
          ELSE Unparsed(input) :
            start \in {NaiveDate_parse_from_str(caps.groups[1], DateFormat)},
            end \in {NaiveDate_parse_from_str(caps.groups[2], DateFormat)} })

\* the only_date_re arm with the typed date itself as the end
OnlyDateArm_same_day_end(input, caps, current_date) ==
    The({ IF start # NoneV
          THEN ParsedRange(SummaryAfter(input, caps), NoneV, NoneV, start, start)
          ELSE Unparsed(input) :
            start \in {NaiveDate_parse_from_str(
                          to_string(current_date.y) \o <<"/">> \o caps.groups[1],
                          DateFormat)} })

OnlyDateArm(input, caps, current_date) ==
    The({ IF start # NoneV
          THEN ParsedRange(SummaryAfter(input, caps), NoneV, NoneV,
                           start, Some(Succ(start[1])))
          ELSE Unparsed(input) :
            start \in {NaiveDate_parse_from_str(
                          to_string(current_date.y) \o <<"/">> \o caps.groups[1],
                          DateFormat)} })

OnlyYearDateArm(input, caps) ==
    The({ IF start # NoneV
          THEN ParsedRange(SummaryAfter(input, caps), NoneV, NoneV,
                           start, Some(Succ(start[1])))
          ELSE Unparsed(input) :
            start \in {NaiveDate_parse_from_str(caps.groups[1], DateFormat)} })

\* the chain with the single-date patterns tested before the ranges
parse_time_range_single_date_first(input, current_date) ==
    The({ IF c6 # NoneV THEN OnlyDateArm(input, c6[1], current_date) ELSE
    The({ IF c7 # NoneV THEN OnlyYearDateArm(input, c7[1]) ELSE
    The({ IF c1 # NoneV THEN TimeArm(input, c1[1], current_date) ELSE
    The({ IF c2 # NoneV THEN DateTimeArm(input, c2[1], current_date) ELSE
    The({ IF c3 # NoneV THEN YearDateTimeArm(input, c3[1]) ELSE
    The({ IF c4 # NoneV THEN DateArm(input, c4[1], current_date) ELSE
    The({ IF c5 # NoneV THEN YearDateArm(input, c5[1]) ELSE
          Unparsed(input)
        : c5 \in {captures(year_date_re, input)} })
        : c4 \in {captures(date_re, input)} })
        : c3 \in {captures(year_date_time_re, input)} })
        : c2 \in {captures(date_time_re, input)} })
        : c1 \in {captures(time_re, input)} })
        : c7 \in {captures(only_year_date_re, input)} })
        : c6 \in {captures(only_date_re, input)} })

\* parse_time_range: the if / else if chain over the seven patterns (c1
\* to c7 are what `captures` returns for each, asked in this order and
\* only while the earlier ones are None); an arm whose values do not
\* parse falls out of the chain to the last line
parse_time_range(input, current_date) ==
    The({ IF c1 # NoneV THEN TimeArm(input, c1[1], current_date) ELSE
    The({ IF c2 # NoneV THEN DateTimeArm(input, c2[1], current_date) ELSE
    The({ IF c3 # NoneV THEN YearDateTimeArm(input, c3[1]) ELSE
    The({ IF c4 # NoneV THEN DateArm(input, c4[1], current_date) ELSE
    The({ IF c5 # NoneV THEN YearDateArm(input, c5[1]) ELSE
    The({ IF c6 # NoneV THEN OnlyDateArm(input, c6[1], current_date) ELSE
    The({ IF c7 # NoneV THEN OnlyYearDateArm(input, c7[1]) ELSE
          Unparsed(input)
        : c7 \in {captures(only_year_date_re, input)} })
        : c6 \in {captures(only_date_re, input)} })
        : c5 \in {captures(year_date_re, input)} })
        : c4 \in {captures(date_re, input)} })
        : c3 \in {captures(year_date_time_re, input)} })
        : c2 \in {captures(date_time_re, input)} })
        : c1 \in {captures(time_re, input)} })

\* ------------------------------------------- parse_date_and_note
\* the two prefixes of parse_date_and_note, both anchored by ^
mm_dd_re == << "(\\d{1,2}/\\d{1,2})", "\\s" >>
yyyy_mm_dd_re == << "(\\d{4}/\\d{1,2}/\\d{1,2})", "\\s" >>

\* "%Y%-m/%-d": the year is followed by the month with nothing between
ShortDueFormat == <<"%Y", "%m", "/", "%d">>

\* a number written with at least `width` digits, zero padded
RECURSIVE Pad(_, _)
Pad(digits, width) ==
    IF Len(digits) >= width THEN digits ELSE Pad(<<"0">> \o digits, width)

\* the due date written with one-digit month and day left as they are
format_due_unpadded(due) ==
    to_string(due.y) \o <<"-">> \o to_string(due.m) \o <<"-">>
        \o to_string(due.d)
        \o <<"T", "0", "0", ":", "0", "0", ":", "0", "0", ".", "0", "0", "0", "Z">>

\* due.format("%Y-%m-%dT00:00:00.000Z").to_string()
format_due(due) ==
    Pad(to_string(due.y), 4) \o <<"-">> \o Pad(to_string(due.m), 2) \o <<"-">>
        \o Pad(to_string(due.d), 2)
        \o <<"T", "0", "0", ":", "0", "0", ":", "0", "0", ".", "0", "0", "0", "Z">>

\* the pair (title_without_date, due_date)
DatedTitle(title, due) == [title_without_date |-> title, due_date |-> due]

\* the body of each prefix arm: the text after the match, trimmed, and the
\* formatted date when the captured date parses; the whole input otherwise
DueArm(input, caps, due) ==
    IF due # NoneV
    THEN DatedTitle(SummaryAfter(input, caps), Some(format_due(due[1])))
    ELSE DatedTitle(input, NoneV)

\* the first statement of parse_date_and_note (an if / else-if chain on
\* the two prefixes)
DateStep(input, current_year) ==
    The({ IF c1 # NoneV
          THEN DueArm(input, c1[1],
                      NaiveDate_parse_from_str(
                          to_string(current_year) \o c1[1].groups[1],
                          ShortDueFormat))
          ELSE
    The({ IF c2 # NoneV
          THEN DueArm(input, c2[1],
                      NaiveDate_parse_from_str(c2[1].groups[1], DateFormat))
          ELSE DatedTitle(input, NoneV)
        : c2 \in {captures(yyyy_mm_dd_re, input)} })
        : c1 \in {captures(mm_dd_re, input)} })

NotesLiteral == <<"n", "o", "t", "e", "s", ":">>

\* notes_re, \snotes:\s(.+)$, is not anchored at the start: the positions
\* where a match can begin (`.` is any character but a line feed, and the
\* greedy group runs to the end of the text)
notes_re_starts(s) ==
    { p \in 0..Len(s) :
        /\ p + 9 <= Len(s)
        /\ IsSpace(s[p + 1])
        /\ SubSeq(s, p + 2, p + 7) = NotesLiteral
        /\ IsSpace(s[p + 8])
        /\ \A i \in (p + 9)..Len(s) : s[i] # "\n" }

\* notes_re.captures: the leftmost match
notes_captures(s) ==
    The({ IF ps = {} THEN NoneV
          ELSE The({ Some([start |-> p, groups |-> <<SubSeq(s, p + 9, Len(s))>>]) :
                       p \in {CHOOSE q \in ps : \A r \in ps : q <= r} }) :
            ps \in {notes_re_starts(s)} })

\* the notes step with the title left untrimmed
NotesStep_untrimmed(title_without_date) ==
    The({ IF caps # NoneV
          THEN [rem |-> SubSeq(title_without_date, 1, caps[1].start),
                notes |-> Some(caps[1].groups[1])]
          ELSE [rem |-> title_without_date, notes |-> NoneV] :
            caps \in {notes_captures(title_without_date)} })

\* the second statement of parse_date_and_note: the pair (rem, notes)
NotesStep(title_without_date) ==
    The({ IF caps # NoneV
          THEN [rem |-> Trim(SubSeq(title_without_date, 1, caps[1].start)),
                notes |-> Some(caps[1].groups[1])]
          ELSE [rem |-> title_without_date, notes |-> NoneV] :
            caps \in {notes_captures(title_without_date)} })

\* the tuple (rem, due_date, notes)
parse_date_and_note(input, current_year) ==
    The({ The({ [title |-> n.rem, due |-> d.due_date, notes |-> n.notes] :
                  n \in {NotesStep(d.title_without_date)} }) :
            d \in {DateStep(input, current_year)} })

\* ------------------------------------------------------- struct App
Status(text, color) == [text |-> text, color |-> color]

LayoutCalendar == [tag |-> "Calendar", notes |-> FALSE]
LayoutEvents == [tag |-> "Events", notes |-> FALSE]
LayoutTasks(notes) == [tag |-> "Tasks", notes |-> notes]

\* an mpsc::channel(1) receiver held in an Option field: gen = 0 is None,
\* otherwise gen names the channel (the refresh that created it); a fetch
\* task holds the sending half of channel task.chan
NoChannel == [gen |-> 0, buf |-> <<>>]

\* App::new, given the two cache documents read from disk
NewApp(events_cache, tasks_cache) ==
    [ current_date |-> Today,
      today |-> Today,
      app_layout |-> LayoutCalendar,
      cursor_line |-> 0,
      exit |-> FALSE,
      event_hub |-> FALSE,
      events_cache |-> events_cache,
      task_hub |-> FALSE,
      tasks_cache |-> tasks_cache,
      refreshing_status |-> Status("", "White"),
      changing_status |-> Status("", "White"),
      change_feedback_rx |-> <<>>,
      inputting |-> FALSE,
      cursor_index |-> 0,
      input_buffer |-> <<>>,
      updating_event_or_task |-> FALSE,
      events_update_rx |-> NoChannel,
      tasks_update_rx |-> NoChannel,
      needs_refresh |-> FALSE,
      auth_status |-> "Authenticating",
      calendar_hub_rx |-> "waiting",
      tasks_hub_rx |-> "waiting",
      \* the UI thread has unwound from a panic
      panicked |-> FALSE,
      \* tasks handed to tokio::spawn by the handler that is running
      spawned |-> <<>>,
      \* history: refreshes started per kind, mutations dispatched, 'R' keys
      g_evGen |-> 0,
      g_tkGen |-> 0,
      g_mutCount |-> 0,
      g_manual |-> 0,
      \* history: which refresh produced the installed snapshot, and the
      \* collections whose listing failed while it was fetched
      g_events_src |-> [gen |-> 0, failed |-> {}],
      g_tasks_src |-> [gen |-> 0, failed |-> {}],
      \* history: mutations whose status message was installed
      g_installed |-> {},
      \* history: refreshes whose result found its channel closed
      g_ev_dropped |-> {},
      g_tk_dropped |-> {},
      \* history: the item whose title the open update session was
      \* pre-filled from (its collection and id)
      g_prefilled |-> <<>> ]

Panic(a) == [a EXCEPT !.panicked = TRUE]

Spawn(a, kind, task) ==
    [a EXCEPT !.spawned = Append(@, [kind |-> kind, task |-> task])]

\* a one-shot mutation task: the remote call it will make
Mutation(a, op, coll, target, title, status) ==
    [ id |-> a.g_mutCount + 1, op |-> op, coll |-> coll, target |-> target,
      title |-> title, date |-> a.current_date, status |-> status,
      payload |-> NoneV ]

Dispatch(a, task) ==
    [Spawn(a, "mut", task) EXCEPT !.g_mutCount = @ + 1]

\* a typed character whose UTF-8 encoding takes two bytes
WideChar == "e_acute"

\* char::len_utf8 of the characters that are typed
len_utf8(ch) == IF ch = WideChar THEN 2 ELSE 1

\* str::len: the length in bytes
RECURSIVE ByteLen(_)
ByteLen(s) == IF s = <<>> THEN 0 ELSE len_utf8(Head(s)) + ByteLen(Tail(s))

\* the number of characters that end at or before byte offset byte_pos
CharsBefore(s, byte_pos) ==
    CHOOSE k \in 0..Len(s) :
        /\ ByteLen(SubSeq(s, 1, k)) <= byte_pos
        /\ k = Len(s) \/ ByteLen(SubSeq(s, 1, k + 1)) > byte_pos

char_count(a) == Len(a.input_buffer)

\* char_indices().nth(char_idx), or the byte length when past the end
byte_offset_at_char(a, char_idx) ==
    IF char_idx < Len(a.input_buffer)
    THEN ByteLen(SubSeq(a.input_buffer, 1, char_idx))
    ELSE ByteLen(a.input_buffer)

remove_char_at(a, char_idx) ==
    IF char_idx >= char_count(a) THEN a
    ELSE [a EXCEPT !.input_buffer =
            SubSeq(a.input_buffer, 1, char_idx)
              \o SubSeq(a.input_buffer, char_idx + 2, Len(a.input_buffer))]

insert_char_at(a, ch, char_idx) ==
    LET at == CharsBefore(a.input_buffer, byte_offset_at_char(a, char_idx))
    IN [a EXCEPT !.input_buffer =
            SubSeq(a.input_buffer, 1, at) \o <<ch>>
              \o SubSeq(a.input_buffer, at + 1, Len(a.input_buffer))]

\* the cancel that leaves the typed text in the buffer
cancel_input_keeps_buffer(a) ==
    [a EXCEPT !.updating_event_or_task = FALSE,
              !.cursor_index = 0,
              !.inputting = FALSE]

cancel_input(a) ==
    [a EXCEPT !.input_buffer = <<>>,
              !.updating_event_or_task = FALSE,
              !.cursor_index = 0,
              !.inputting = FALSE,
              !.g_prefilled = <<>>]

current_day_events(a) ==
    IF a.current_date \in DOMAIN a.events_cache
    THEN a.events_cache[a.current_date] ELSE <<>>

\* indices are 0-based as in the source; Option<usize>
selected_event_index(a) ==
    LET events == current_day_events(a) IN
    IF events = <<>> THEN NoneV
    ELSE IF a.cursor_line < Len(events) THEN Some(a.cursor_line)
    ELSE Some(Len(events) - 1)

\* the index that is the list cursor whatever the length of the list
selected_task_index_unclamped(a) ==
    IF a.tasks_cache = <<>> THEN NoneV ELSE Some(a.cursor_line)

selected_task_index(a) ==
    IF a.tasks_cache = <<>> THEN NoneV
    ELSE IF a.cursor_line < Len(a.tasks_cache) THEN Some(a.cursor_line)
    ELSE Some(Len(a.tasks_cache) - 1)

\* slice::get
Get(s, idx) == IF idx + 1 \in DOMAIN s THEN Some(s[idx + 1]) ELSE NoneV

selected_event(a) ==
    LET idx == selected_event_index(a) IN
    IF idx = NoneV THEN NoneV ELSE Get(current_day_events(a), idx[1])

selected_task(a) ==
    LET idx == selected_task_index(a) IN
    IF idx = NoneV THEN NoneV ELSE Get(a.tasks_cache, idx[1])

\* the refresh keeps one long-lived channel: a later refresh hands out
\* another sender of the channel the first one created
start_background_event_fetch_shared(a) ==
    IF a.event_hub
    THEN LET gen == a.g_evGen + 1
             chan == IF a.events_update_rx.gen # 0
                     THEN a.events_update_rx.gen ELSE gen
         IN Spawn([a EXCEPT !.events_update_rx.gen = chan,
                            !.refreshing_status = Status("Refreshing", "Green"),
                            !.g_evGen = gen],
                  "ev", [gen |-> gen, chan |-> chan, pc |-> "fetch", seen |-> <<>>])
    ELSE a

\* ------------------------------------------------- starting a refresh
\* start_background_event_fetch: the receiver of a fresh channel replaces
\* the stored one (whose sender then finds the channel closed)
start_background_event_fetch(a) ==
    IF a.event_hub
    THEN LET gen == a.g_evGen + 1 IN
         Spawn([a EXCEPT !.events_update_rx = [gen |-> gen, buf |-> <<>>],
                         !.refreshing_status = Status("Refreshing", "Green"),
                         !.g_evGen = gen],
               "ev", [gen |-> gen, chan |-> gen, pc |-> "fetch", seen |-> <<>>])
    ELSE a

start_background_task_fetch(a) ==
    IF a.task_hub
    THEN LET gen == a.g_tkGen + 1 IN
         Spawn([a EXCEPT !.tasks_update_rx = [gen |-> gen, buf |-> <<>>],
                         !.refreshing_status = Status("Refreshing", "Green"),
                         !.g_tkGen = gen],
               "tk", [gen |-> gen, chan |-> gen, pc |-> "fetch", seen |-> <<>>])
    ELSE a

start_background_refresh(a) ==
    The({ start_background_task_fetch(a1) :
            a1 \in {start_background_event_fetch(a)} })

\* the status that is Online only when both hubs are present
update_auth_status_both(a) ==
    [a EXCEPT !.auth_status =
        IF a.event_hub /\ a.task_hub THEN "Online" ELSE "Offline"]

update_auth_status(a) ==
    [a EXCEPT !.auth_status =
        IF a.event_hub \/ a.task_hub THEN "Online" ELSE "Offline"]

\* ------------------------------------------------- draining the channels
\* Receiver::blocking_recv returns only once a message is there
BlockingRecv(buf) == [returns |-> buf # <<>>, msg |-> buf]

\* Receiver::try_recv returns at once, with the buffered message if any
TryRecv(buf) == [returns |-> TRUE, msg |-> buf]

CheckEvents(a) ==
    LET r == TryRecv(a.events_update_rx.buf) IN
    IF a.events_update_rx.gen # 0 /\ r.msg # <<>>
    THEN [a EXCEPT !.events_cache = r.msg[1].map,
                   !.refreshing_status = Status("", "White"),
                   !.events_update_rx.buf = <<>>,
                   !.g_events_src = [gen |-> r.msg[1].gen,
                                     failed |-> r.msg[1].failed]]
    ELSE a

CheckTasks(a) ==
    LET r == TryRecv(a.tasks_update_rx.buf) IN
    IF a.tasks_update_rx.gen # 0 /\ r.msg # <<>>
    THEN [a EXCEPT !.tasks_cache = r.msg[1].all_tasks,
                   !.refreshing_status = Status("", "White"),
                   !.tasks_update_rx.buf = <<>>,
                   !.g_tasks_src = [gen |-> r.msg[1].gen,
                                    failed |-> r.msg[1].failed]]
    ELSE a

CheckFeedback(a) ==
    LET r == TryRecv(a.change_feedback_rx) IN
    IF r.msg # <<>>
    THEN [a EXCEPT !.changing_status = Status(r.msg[1].text, r.msg[1].color),
                   !.needs_refresh = TRUE,
                   !.change_feedback_rx = <<>>,
                   !.g_installed = @ \cup {r.msg[1].id}]
    ELSE a

\* the oneshot receivers: "waiting" nothing sent yet, "some" / "none" the
\* sent Option<hub>, "closed" the field is None
CheckCalendarHub(a) ==
    IF a.calendar_hub_rx \in {"some", "none"}
    THEN The({ [update_auth_status(a2) EXCEPT !.calendar_hub_rx = "closed"] :
                 a2 \in { IF a1.event_hub THEN start_background_event_fetch(a1)
                          ELSE a1 :
                 a1 \in {[a EXCEPT !.event_hub = (a.calendar_hub_rx = "some")]} } })
    ELSE a

CheckTasksHub(a) ==
    IF a.tasks_hub_rx \in {"some", "none"}
    THEN The({ [update_auth_status(a2) EXCEPT !.tasks_hub_rx = "closed"] :
                 a2 \in { IF a1.task_hub THEN start_background_task_fetch(a1)
                          ELSE a1 :
                 a1 \in {[a EXCEPT !.task_hub = (a.tasks_hub_rx = "some")]} } })
    ELSE a

check_updates(a) ==
    The({ CheckTasksHub(a4) : a4 \in
        { CheckCalendarHub(a3) : a3 \in
        { CheckFeedback(a2) : a2 \in
        { CheckTasks(a1) : a1 \in {CheckEvents(a)} } } } })

\* every receive of check_updates has returned
check_updates_returns(a) ==
    /\ TryRecv(a.events_update_rx.buf).returns
    /\ TryRecv(a.tasks_update_rx.buf).returns
    /\ TryRecv(a.change_feedback_rx).returns

\* ------------------------------------------------- dispatching mutations
Offline(a, color) == [a EXCEPT !.changing_status = Status("Offline", color)]

\* the offset of the local timezone east of UTC, in minutes (FixedOffset)
app_tz == 60

\* and_local_timezone(app_tz).latest().unwrap().to_utc(): the minutes
\* from the start of day 0 of the common era to the instant, in UTC
to_utc(naive) ==
    DayNum(naive.date) * 1440 + naive.h * 60 + naive.mi - app_tz

\* api::EventDateTime with no time_zone
EventDateTime(date, date_time) == [date |-> date, date_time |-> date_time]

\* the first two arms of the match on the parsed tuple, the same in
\* update_event_in_background and create_event_in_background; `other` is
\* the event of the third arm
EventFromParsed(parsed, other) ==
    IF parsed.start # NoneV /\ parsed.end # NoneV
    THEN [summary |-> Some(parsed.summary),
          start |-> Some(EventDateTime(NoneV, Some(to_utc(parsed.start[1])))),
          end |-> Some(EventDateTime(NoneV, Some(to_utc(parsed.end[1]))))]
    ELSE IF parsed.start_date # NoneV /\ parsed.end_date # NoneV
    THEN [summary |-> Some(parsed.summary),
          start |-> Some(EventDateTime(parsed.start_date, NoneV)),
          end |-> Some(EventDateTime(parsed.end_date, NoneV))]
    ELSE other

update_event_in_background(a, title) ==
    IF ~a.event_hub THEN Offline(a, "Red")
    ELSE LET a1 == [a EXCEPT !.changing_status =
                                  Status("Creating event", "Yellow")]
             current_event == selected_event(a1)
             updated_event ==
                 The({ EventFromParsed(parsed,
                         [summary |-> Some(parsed.summary),
                          start |-> NoneV, end |-> NoneV]) :
                       parsed \in { parse_time_range(input, a1.current_date) :
                                       input \in {Trim(title)} } })
         IN IF current_event = NoneV THEN Panic(a1)
            ELSE Dispatch(a1,
                   [Mutation(a1, "patch_event", current_event[1].cal,
                             current_event[1].ev.id, Trim(title), NoneV)
                      EXCEPT !.payload = Some(updated_event)])

\* the Task both task handlers build from the parsed tuple:
\* Task { title: Some(t), due, notes, ..Task::default() }
TaskFromParsed(title, a) ==
    The({ [title |-> Some(parsed.title), due |-> parsed.due,
           notes |-> parsed.notes] :
            parsed \in {parse_date_and_note(title, a.current_date.y)} })

update_task_in_background(a, title) ==
    IF ~a.task_hub THEN Offline(a, "Red")
    ELSE LET a1 == [a EXCEPT !.changing_status =
                                  Status("Updating task", "Yellow")]
             updating == selected_task(a1)
         IN IF updating = NoneV THEN Panic(a1)
            ELSE Dispatch(a1,
                   [Mutation(a1, "patch_task", updating[1].list,
                             updating[1].task.id, title, NoneV)
                      EXCEPT !.payload = Some(TaskFromParsed(title, a1))])

create_task_in_background(a, title) ==
    IF ~a.task_hub THEN Offline(a, "Red")
    ELSE LET a1 == [a EXCEPT !.changing_status =
                                  Status("Creating task", "Yellow"),
                             !.cursor_line = 0]
         IN Dispatch(a1,
              [Mutation(a1, "insert_task", "", NoneV, title, NoneV)
                 EXCEPT !.payload = Some(TaskFromParsed(title, a1))])

\* create_event_in_background whose third arm ends on the selected date
create_event_one_instant(a, title) ==
    IF ~a.event_hub THEN Offline(a, "Red")
    ELSE LET a1 == [a EXCEPT !.changing_status =
                                  Status("Creating event", "Yellow")]
             date == a1.current_date
             new_event ==
                 The({ EventFromParsed(parsed,
                         [summary |-> Some(parsed.summary),
                          start |-> Some(EventDateTime(Some(date), NoneV)),
                          end |-> Some(EventDateTime(Some(date), NoneV))]) :
                       parsed \in { parse_time_range(input, date) :
                                       input \in {Trim(title)} } })
         IN Dispatch(a1,
              [Mutation(a1, "insert_event", "primary", NoneV, Trim(title), NoneV)
                 EXCEPT !.payload = Some(new_event)])

create_event_in_background(a, title) ==
    IF ~a.event_hub THEN Offline(a, "Red")
    ELSE LET a1 == [a EXCEPT !.changing_status =
                                  Status("Creating event", "Yellow")]
             date == a1.current_date
             new_event ==
                 The({ EventFromParsed(parsed,
                         [summary |-> Some(parsed.summary),
                          start |-> Some(EventDateTime(Some(date), NoneV)),
                          end |-> Some(EventDateTime(Some(Succ(date)), NoneV))]) :
                       parsed \in { parse_time_range(input, date) :
                                       input \in {Trim(title)} } })
         IN Dispatch(a1,
              [Mutation(a1, "insert_event", "primary", NoneV, Trim(title), NoneV)
                 EXCEPT !.payload = Some(new_event)])

create_task_or_event(a) ==
    IF Trim(a.input_buffer) = <<>> THEN cancel_input(a)
    ELSE LET title == Trim(a.input_buffer)
             a1 == [a EXCEPT !.input_buffer = <<>>,
                             !.cursor_index = 0,
                             !.inputting = FALSE]
         IN IF a1.app_layout.tag = "Tasks"
            THEN create_task_in_background(a1, title)
            ELSE create_event_in_background(a1, title)

\* the submit that never looks at updating_event_or_task
update_or_create_always_create(a) ==
    create_task_or_event(a)

update_or_create_task_or_event(a) ==
    IF Trim(a.input_buffer) = <<>> THEN cancel_input(a)
    ELSE IF a.updating_event_or_task
    THEN LET title == Trim(a.input_buffer)
             a1 == [a EXCEPT !.updating_event_or_task = FALSE,
                             !.input_buffer = <<>>,
                             !.inputting = FALSE,
                             !.g_prefilled = <<>>]
         IN IF a1.app_layout.tag = "Tasks"
            THEN IF a1.tasks_cache # <<>>
                 THEN update_task_in_background(a1, title)
                 ELSE create_task_or_event(a1)
            ELSE IF DOMAIN a1.events_cache # {}
                 THEN update_event_in_background(a1, title)
                 ELSE create_task_or_event(a1)
    ELSE create_task_or_event(a)

\* the handler also drops the day's events from the cache before the
\* remote has answered
delete_selected_event_optimistic(a) ==
    LET event == selected_event(a) IN
    IF event = NoneV THEN a
    ELSE IF event[1].ev.id = NoneV THEN a
    ELSE IF ~a.event_hub THEN Offline(a, "White")
    ELSE Dispatch([a EXCEPT !.changing_status = Status("Deleting", "Yellow"),
                            !.events_cache =
                                [d \in DOMAIN a.events_cache \ {a.current_date}
                                    |-> a.events_cache[d]]],
                  Mutation(a, "delete_event", event[1].cal, event[1].ev.id,
                           <<>>, NoneV))

delete_selected_event(a) ==
    LET event == selected_event(a) IN
    IF event = NoneV THEN a
    ELSE IF event[1].ev.id = NoneV THEN a
    ELSE IF ~a.event_hub THEN Offline(a, "White")
    ELSE Dispatch([a EXCEPT !.changing_status = Status("Deleting", "Yellow")],
                  Mutation(a, "delete_event", event[1].cal, event[1].ev.id,
                           <<>>, NoneV))

\* the handler dispatches without looking at the hub
delete_selected_task_unchecked(a) ==
    LET task == selected_task(a) IN
    IF task = NoneV THEN a
    ELSE IF task[1].task.id = NoneV THEN a
    ELSE Dispatch([a EXCEPT !.changing_status =
                                Status("Deleting task...", "Yellow")],
                  Mutation(a, "delete_task", task[1].list, task[1].task.id,
                           <<>>, NoneV))

delete_selected_task(a) ==
    LET task == selected_task(a) IN
    IF task = NoneV THEN a
    ELSE IF task[1].task.id = NoneV THEN a
    ELSE IF ~a.task_hub THEN Offline(a, "White")
    ELSE Dispatch([a EXCEPT !.changing_status =
                                Status("Deleting task...", "Yellow")],
                  Mutation(a, "delete_task", task[1].list, task[1].task.id,
                           <<>>, NoneV))

toggle_task_completed(a) ==
    IF a.app_layout.tag # "Tasks" THEN a
    ELSE LET task == selected_task(a) IN
    IF task = NoneV THEN a
    ELSE IF task[1].task.id = NoneV THEN a
    ELSE IF ~a.task_hub THEN Offline(a, "White")
    ELSE IF task[1].task.status = NoneV THEN a
    ELSE LET new_completed ==
                 IF task[1].task.status = Some("completed")
                 THEN Some("needsAction")
                 ELSE IF task[1].task.status = Some("needsAction")
                 THEN Some("completed")
                 ELSE NoneV
         IN Dispatch([a EXCEPT !.changing_status =
                                   Status("Toggling...", "Yellow")],
                     Mutation(a, "toggle_task", task[1].list, task[1].task.id,
                              <<>>, new_completed))

clear_completed_tasks(a) ==
    IF a.app_layout.tag # "Tasks" THEN a
    ELSE LET task == selected_task(a) IN
    IF task = NoneV THEN a
    ELSE IF ~a.task_hub THEN Offline(a, "White")
    ELSE Dispatch([a EXCEPT !.changing_status =
                                Status("Clearing...", "Yellow")],
                  Mutation(a, "clear_tasks", task[1].list, NoneV,
                           <<>>, NoneV))

\* ----------------------------------------------------------- the grid
first_day_of_month(a) == Date(a.current_date.y, a.current_date.m, 1)

last_day_of_month(a) == Pred(AddMonths(first_day_of_month(a), 1))

\* generate_calendar_grid: the Sunday the grid starts on and the number of
\* week rows the widget lays out
generate_calendar_grid(a) ==
    The({ The({ LET number_of_days == DayNum(last_day) - DayNum(start_date)
                    number_of_rows == IF number_of_days > 34 THEN 6
                                      ELSE IF number_of_days < 29 THEN 4
                                      ELSE 5
                IN [start_date |-> start_date,
                    number_of_rows |-> number_of_rows] :
            start_date \in {AddDays(first_day, 0 - first_weekday)} }) :
        first_day \in {first_day_of_month(a)},
        last_day \in {last_day_of_month(a)},
        first_weekday \in {WeekdayFromSunday(first_day_of_month(a))} })

\* terminal.draw: what the frame shows of the grid
draw(a) ==
    [drawn |-> TRUE, date |-> a.current_date,
     rows |-> generate_calendar_grid(a).number_of_rows]

\* ------------------------------------------------------- key handlers
add_or_update_event(a) ==
    LET a1 == [a EXCEPT !.updating_event_or_task = TRUE]
        create == [a1 EXCEPT !.updating_event_or_task = FALSE,
                             !.inputting = TRUE]
    IN IF a1.app_layout.tag = "Tasks" /\ selected_task(a1) # NoneV
       THEN LET title == selected_task(a1)[1].task.title IN
            IF title = NoneV THEN Panic(a1)
            ELSE [a1 EXCEPT !.input_buffer = title[1],
                            !.cursor_index = Len(title[1]),
                            !.inputting = TRUE,
                            !.g_prefilled =
                                <<[coll |-> selected_task(a1)[1].list,
                                   id |-> selected_task(a1)[1].task.id]>>]
       ELSE IF a1.app_layout.tag = "Events" /\ selected_event(a1) # NoneV
       THEN LET summary == selected_event(a1)[1].ev.summary IN
            IF summary = NoneV THEN Panic(a1)
            ELSE [a1 EXCEPT !.input_buffer = summary[1],
                            !.cursor_index = Len(summary[1]),
                            !.inputting = TRUE,
                            !.g_prefilled =
                                <<[coll |-> selected_event(a1)[1].cal,
                                   id |-> selected_event(a1)[1].ev.id]>>]
       ELSE create

exit(a) ==
    IF a.app_layout.tag = "Events"
    THEN [a EXCEPT !.app_layout = LayoutCalendar]
    ELSE IF a.app_layout = LayoutTasks(TRUE)
    THEN [a EXCEPT !.app_layout = LayoutTasks(FALSE)]
    ELSE [a EXCEPT !.exit = TRUE]

move_right(a) ==
    IF a.app_layout.tag \in {"Events", "Tasks"} THEN a
    ELSE [a EXCEPT !.current_date = Succ(a.current_date)]

move_left(a) ==
    IF a.app_layout.tag \in {"Events", "Tasks"} THEN a
    ELSE [a EXCEPT !.current_date = Pred(a.current_date)]

\* the calendar moved up by one day
move_up_one_day(a) ==
    IF a.app_layout.tag \in {"Events", "Tasks"}
    THEN IF a.cursor_line > 0
         THEN [a EXCEPT !.cursor_line = a.cursor_line - 1] ELSE a
    ELSE [a EXCEPT !.current_date = Pred(a.current_date)]

move_up(a) ==
    IF a.app_layout.tag \in {"Events", "Tasks"}
    THEN IF a.cursor_line > 0
         THEN [a EXCEPT !.cursor_line = a.cursor_line - 1] ELSE a
    ELSE [a EXCEPT !.current_date = AddDays(a.current_date, -7)]

\* `len - 1` on usize: with len = 0 the subtraction panics in a build with
\* overflow checks and wraps to usize::MAX in a build without them
MoveDownIn(a, len, overflow_checks) ==
    IF len = 0
    THEN IF overflow_checks THEN Panic(a)
         ELSE [a EXCEPT !.cursor_line = a.cursor_line + 1]
    ELSE IF a.cursor_line < len - 1
         THEN [a EXCEPT !.cursor_line = a.cursor_line + 1] ELSE a

move_down(a, overflow_checks) ==
    IF a.app_layout.tag = "Tasks"
    THEN MoveDownIn(a, Len(a.tasks_cache), overflow_checks)
    ELSE IF a.app_layout.tag = "Events"
    THEN MoveDownIn(a, Len(current_day_events(a)), overflow_checks)
    ELSE [a EXCEPT !.current_date = AddDays(a.current_date, 7)]

toggle_event_visibility(a) ==
    [a EXCEPT !.app_layout = IF a.app_layout.tag = "Events"
                             THEN LayoutCalendar ELSE LayoutEvents,
              !.cursor_line = 0]

toggle_tasks_visibility(a) ==
    [a EXCEPT !.app_layout = IF a.app_layout.tag = "Tasks"
                             THEN LayoutCalendar ELSE LayoutTasks(FALSE),
              !.cursor_line = 0]

\* handle_key_event, one key code at a time
handle_key_event(a, key, overflow_checks) ==
    CASE key \in {"q", "Esc"} -> exit(a)
      [] key \in {"Left", "h"} -> move_left(a)
      [] key \in {"Right", "l"} -> move_right(a)
      [] key \in {"Up", "k"} -> move_up(a)
      [] key \in {"Down", "j"} -> move_down(a, overflow_checks)
      [] key = ">" -> [a EXCEPT !.current_date = AddMonths(a.current_date, 1)]
      [] key = "<" -> [a EXCEPT !.current_date = AddMonths(a.current_date, -1)]
      [] key = "y" -> [a EXCEPT !.current_date = AddMonths(a.current_date, 12)]
      [] key = "Y" -> [a EXCEPT !.current_date = AddMonths(a.current_date, -12)]
      [] key = "D" ->
            IF a.app_layout.tag = "Tasks" THEN delete_selected_task(a)
            ELSE IF a.app_layout.tag = "Events" THEN delete_selected_event(a)
            ELSE a
      [] key = "Enter" ->
            IF a.app_layout = LayoutTasks(FALSE)
            THEN [a EXCEPT !.app_layout = LayoutTasks(TRUE)] ELSE a
      [] key = "E" -> toggle_event_visibility(a)
      [] key = "T" -> toggle_tasks_visibility(a)
      [] key = "t" -> [a EXCEPT !.current_date = a.today]
      [] key = "R" -> [a EXCEPT !.needs_refresh = TRUE, !.g_manual = @ + 1]
      [] key = "o" -> [a EXCEPT !.inputting = TRUE]
      [] key = "a" -> add_or_update_event(a)
      [] key = " " -> toggle_task_completed(a)
      [] key = "L" -> clear_completed_tasks(a)
      [] OTHER -> a

\* input_handle_key_event; the keys with a modifier are named "C-x"
\* the input line whose Esc goes back as it does outside an edit session
input_handle_key_event_esc_back(a, key) ==
    IF key = "Esc" THEN exit(cancel_input(a))
    ELSE IF key = "Enter" THEN update_or_create_task_or_event(a)
    ELSE a

input_handle_key_event(a, key) ==
    CASE key \in {"Esc", "C-c"} -> cancel_input(a)
      [] key = "Enter" -> update_or_create_task_or_event(a)
      [] key \in {"Left", "C-b"} ->
            IF a.cursor_index > 0
            THEN [a EXCEPT !.cursor_index = a.cursor_index - 1] ELSE a
      [] key \in {"Right", "C-f"} ->
            IF a.cursor_index < ByteLen(a.input_buffer)
            THEN [a EXCEPT !.cursor_index = a.cursor_index + 1] ELSE a
      [] key \in {"Backspace", "C-h"} ->
            IF a.cursor_index > 0
            THEN [remove_char_at(a, a.cursor_index - 1)
                    EXCEPT !.cursor_index = a.cursor_index - 1]
            ELSE a
      [] key \in {"Delete", "C-d"} ->
            IF a.cursor_index < ByteLen(a.input_buffer)
            THEN remove_char_at(a, a.cursor_index) ELSE a
      [] key = "C-a" -> [a EXCEPT !.cursor_index = 0]
      [] key = "C-e" -> [a EXCEPT !.cursor_index = char_count(a)]
      [] key = "C-u" ->
            [a EXCEPT !.input_buffer =
                        SubSeq(@, CharsBefore(@, byte_offset_at_char(a, a.cursor_index)) + 1,
                               Len(@)),
                      !.cursor_index = 0]
      [] key = "C-k" ->
            LET kept == SubSeq(a.input_buffer, 1,
                          CharsBefore(a.input_buffer,
                                      byte_offset_at_char(a, a.cursor_index)))
            IN [a EXCEPT !.input_buffer = kept, !.cursor_index = Len(kept)]
      \* _ => {}: a key that is no character and has no arm
      [] key \in {"Up", "Down", "Tab"} -> a
      [] OTHER -> [insert_char_at(a, key, a.cursor_index)
                     EXCEPT !.cursor_index = a.cursor_index + 1]

\* ------------------------------------------------------ background work
\* urlencoding::encode of a calendar id: unreserved characters stand for
\* themselves, '@' becomes %40
urlencoding_encode(id) ==
    CASE id = "user@host" -> "user%40host"
      [] OTHER -> id

\* the date whose day number (num_days_from_ce) is n
DateOfDayNum(n) ==
    LET y == CHOOSE yy \in (n \div 366)..((n \div 365) + 1) :
                 /\ DayNum(Date(yy, 1, 1)) <= n
                 /\ n < DayNum(Date(yy + 1, 1, 1))
        m == CHOOSE mm \in 1..12 :
                 /\ DayNum(Date(y, mm, 1)) <= n
                 /\ n <= DayNum(Date(y, mm, DaysInMonth(y, mm)))
    IN Date(y, m, n - DayNum(Date(y, m, 1)) + 1)

\* the date of the instant in UTC, the offset of the display timezone left
\* out
StartUtcDate(start) ==
    IF start.date_time # NoneV
    THEN Some(DateOfDayNum(start.date_time[1] \div 1440))
    ELSE start.date

\* the date an event with this start is listed under: the local date of
\* its instant (with_timezone(&app_tz).date_naive()) when it has one,
\* otherwise its all-day date, None when it has neither
StartLocalDate(start) ==
    IF start.date_time # NoneV
    THEN Some(DateOfDayNum((start.date_time[1] + app_tz) \div 1440))
    ELSE start.date

\* start_date_and_event: None for an event without a start
start_date_and_event(event) ==
    IF event.start # NoneV THEN StartLocalDate(event.start[1]) ELSE NoneV

\* the events of one calendar pushed under their start date, in listing
\* order, each with the encoded calendar id (fetch_events, the loop over
\* events_list.items)
RECURSIVE PushEvents(_, _, _)
PushEvents(map, items, cal) ==
    IF items = <<>> THEN map
    ELSE PushEvents(
             The({ IF start_date = NoneV THEN map
                   ELSE MapPush(map, start_date[1],
                                [ev |-> Head(items),
                                 cal |-> urlencoding_encode(cal)]) :
                     start_date \in {start_date_and_event(Head(items))} }),
             Tail(items), cal)

\* fetch_tasks: items.iter().map(|t| (t.clone(), tasklist_id.clone()))
TasksWithList(items, list) ==
    [i \in DOMAIN items |-> [task |-> items[i], list |-> list]]

\* fetch_events up to its return value: calendar_list().list() (an error
\* returns None and the task ends without sending), then events().list()
\* for each calendar (an error is logged and the loop goes on with the
\* next calendar).  `failed` is the set of calendars whose listing failed.
RECURSIVE fetch_events(_, _, _, _)
fetch_events(map, cals, events, failed) ==
    IF cals = <<>> THEN map
    ELSE fetch_events(IF Head(cals) \in failed THEN map
                      ELSE PushEvents(map, events[Head(cals)], Head(cals)),
                      Tail(cals), events, failed)

RECURSIVE fetch_tasks(_, _, _, _)
fetch_tasks(all_tasks, lists, tasks, failed) ==
    IF lists = <<>> THEN all_tasks
    ELSE fetch_tasks(IF Head(lists) \in failed THEN all_tasks
                     ELSE all_tasks \o TasksWithList(tasks[Head(lists)], Head(lists)),
                     Tail(lists), tasks, failed)

HasId(items, id) == \E i \in DOMAIN items : items[i].id = id

RemoveId(items, id) == SelectSeq(items, LAMBDA it : it.id # id)

\* the effect on the remote store of a mutation call that succeeds
ApplyMutation(r, t) ==
    CASE t.op = "insert_event" ->
            [r EXCEPT !.events["primary"] =
                Append(@, [id |-> Some(10 + t.id),
                           summary |-> t.payload[1].summary,
                           start |-> t.payload[1].start])]
      [] t.op = "patch_event" ->
            [r EXCEPT !.events[t.coll] =
                [i \in DOMAIN @ |->
                    IF @[i].id = t.target
                    THEN [@[i] EXCEPT
                            !.summary = t.payload[1].summary,
                            !.start = IF t.payload[1].start # NoneV
                                      THEN t.payload[1].start
                                      ELSE @]
                    ELSE @[i]]]
      [] t.op = "delete_event" ->
            [r EXCEPT !.events[t.coll] = RemoveId(@, t.target)]
      [] t.op = "insert_task" ->
            [r EXCEPT !.tasks[TaskLists[1]] =
                Append(@, [id |-> Some(10 + t.id),
                           title |-> t.payload[1].title,
                           status |-> Some("needsAction")])]
      [] t.op = "patch_task" ->
            [r EXCEPT !.tasks[t.coll] =
                [i \in DOMAIN @ |-> IF @[i].id = t.target
                                    THEN [@[i] EXCEPT
                                            !.title = t.payload[1].title]
                                    ELSE @[i]]]
      [] t.op = "delete_task" ->
            [r EXCEPT !.tasks[t.coll] = RemoveId(@, t.target)]
      [] t.op = "toggle_task" ->
            [r EXCEPT !.tasks[t.coll] =
                [i \in DOMAIN @ |-> IF @[i].id = t.target /\ t.status # NoneV
                                    THEN [@[i] EXCEPT !.status = t.status]
                                    ELSE @[i]]]
      [] t.op = "clear_tasks" ->
            [r EXCEPT !.tasks[t.coll] =
                SelectSeq(@, LAMBDA it : it.status # Some("completed"))]

\* the remote rejects a call that names an entity it does not hold
TargetKnown(r, t) ==
    CASE t.op \in {"patch_event", "delete_event"} ->
            HasId(r.events[t.coll], t.target)
      [] t.op \in {"patch_task", "delete_task", "toggle_task"} ->
            HasId(r.tasks[t.coll], t.target)
      [] OTHER -> TRUE

\* the text of the Ok arm of each mutation task
SuccessText(op) ==
    CASE op \in {"insert_event", "patch_event"} -> "Event created!"
      [] op = "insert_task" -> "Task created!"
      [] op = "patch_task" -> "Task updated!"
      [] op = "delete_event" -> "Event Deleted!"
      [] op = "delete_task" -> "Task deleted!"
      [] op = "toggle_task" -> "Completed"
      [] op = "clear_tasks" -> "Cleared"

\* the message a mutation task sends once its call has returned
FeedbackMsg(t, ok) ==
    IF ok THEN [text |-> SuccessText(t.op), color |-> "Green", id |-> t.id]
    ELSE [text |-> "Failed", color |-> "Red", id |-> t.id]

\* ------------------------------------------------------------- the state
VARIABLES
    app,        \* struct App (fields of the UI thread)
    evFetches,  \* spawned fetch_events tasks that have not finished
    tkFetches,  \* spawned fetch_tasks tasks that have not finished
    muts,       \* spawned mutation tasks whose remote call has not returned
    fbWaiters,  \* messages of tasks waiting in tx.send for the one slot
    remote,     \* the remote store: events per calendar, tasks per list
    disk,       \* the two persisted cache documents
    view,       \* the last frame drawn: its viewport date and grid rows
    limits      \* the budgets of the run: mutations dispatched, 'R' keys,
                \* months the viewport may move

vars == <<app, evFetches, tkFetches, muts, fbWaiters, remote, disk, view, limits>>

\* nothing has been drawn yet
NoFrame == [drawn |-> FALSE, date |-> Today, rows |-> 0]

InitSnapshotEvents == fetch_events(EmptyMap, Calendars, InitRemoteEvents, {})
InitSnapshotTasks == fetch_tasks(<<>>, TaskLists, InitRemoteTasks, {})

\* load_events_cache / load_tasks_cache: a missing or unreadable document
\* gives an empty collection; otherwise what an earlier run saved
Init ==
    /\ disk \in { [events_file |-> EmptyMap, tasks_file |-> <<>>],
                  [events_file |-> InitSnapshotEvents,
                   tasks_file |-> InitSnapshotTasks] }
    /\ app = NewApp(disk.events_file, disk.tasks_file)
    /\ evFetches = {}
    /\ tkFetches = {}
    /\ muts = {}
    /\ fbWaiters = <<>>
    /\ remote = [events |-> InitRemoteEvents, tasks |-> InitRemoteTasks]
    /\ view = NoFrame
    /\ limits = [mutations |-> 0, manual |-> MaxManual, months |-> 0]

\* the state once both handles have resolved (ev, tk: present or absent)
\* and the refreshes started for them have been installed: every list
\* call succeeded, so a present handle leaves the snapshot of the remote
\* in the cache and on disk; an absent one leaves what was loaded
Started(ev, tk, loaded) ==
    LET a0 == NewApp(IF ev \/ loaded THEN InitSnapshotEvents ELSE EmptyMap,
                     IF tk \/ loaded THEN InitSnapshotTasks ELSE <<>>)
    IN [a0 EXCEPT !.event_hub = ev,
                  !.task_hub = tk,
                  !.auth_status = IF ev \/ tk THEN "Online" ELSE "Offline",
                  !.calendar_hub_rx = "closed",
                  !.tasks_hub_rx = "closed",
                  !.events_update_rx = IF ev THEN [gen |-> 1, buf |-> <<>>]
                                       ELSE NoChannel,
                  !.tasks_update_rx = IF tk THEN [gen |-> 1, buf |-> <<>>]
                                      ELSE NoChannel,
                  !.g_evGen = IF ev THEN 1 ELSE 0,
                  !.g_tkGen = IF tk THEN 1 ELSE 0,
                  !.g_events_src = [gen |-> IF ev THEN 1 ELSE 0, failed |-> {}],
                  !.g_tasks_src = [gen |-> IF tk THEN 1 ELSE 0, failed |-> {}]]

InitStarted(lim) ==
    /\ \E ev \in BOOLEAN, tk \in BOOLEAN, loaded \in BOOLEAN :
         /\ app = Started(ev, tk, loaded)
         /\ disk = [events_file |-> app.events_cache,
                    tasks_file |-> app.tasks_cache]
    /\ evFetches = {}
    /\ tkFetches = {}
    /\ muts = {}
    /\ fbWaiters = <<>>
    /\ remote = [events |-> InitRemoteEvents, tasks |-> InitRemoteTasks]
    /\ view = NoFrame
    /\ limits = lim

InitMutate ==
    InitStarted([mutations |-> MaxMutations, manual |-> 0, months |-> 0])
InitEdit ==
    InitStarted([mutations |-> MaxEditMutations, manual |-> 0, months |-> 0])
InitGrid ==
    InitStarted([mutations |-> 0, manual |-> 0, months |-> GridMonths])

\* a remote task list of two open tasks
RemoteTwoTasks ==
    [l \in {"list1"} |->
        InitRemoteTasks[l] \o
          << [id |-> Some(2), title |-> Some(<<"x">>),
              status |-> Some("needsAction")] >>]

\* the state once both handles have resolved present and the first
\* refreshes have been installed, the remote holding two tasks
InitCursor ==
    /\ app = [Started(TRUE, TRUE, TRUE) EXCEPT
                !.tasks_cache = fetch_tasks(<<>>, TaskLists, RemoteTwoTasks, {})]
    /\ disk = [events_file |-> app.events_cache,
               tasks_file |-> app.tasks_cache]
    /\ evFetches = {}
    /\ tkFetches = {}
    /\ muts = {}
    /\ fbWaiters = <<>>
    /\ remote = [events |-> InitRemoteEvents, tasks |-> RemoteTwoTasks]
    /\ view = NoFrame
    /\ limits = [mutations |-> MaxEditMutations, manual |-> 0, months |-> 0]

\* a remote calendar with a titled and an untitled event on the same day
RemoteUntitledEvent ==
    [c \in {"primary", "work"} |->
        IF c = "primary"
        THEN InitRemoteEvents[c] \o
               << [id |-> Some(3), summary |-> NoneV,
                   start |-> Some([date |-> Some(Today), date_time |-> NoneV])] >>
        ELSE InitRemoteEvents[c]]

\* the state once both handles have resolved present and the first
\* refreshes have been installed, the remote holding the untitled event
InitStartEdit ==
    /\ app = [Started(TRUE, TRUE, TRUE) EXCEPT
                !.events_cache =
                    fetch_events(EmptyMap, Calendars, RemoteUntitledEvent, {})]
    /\ disk = [events_file |-> app.events_cache,
               tasks_file |-> app.tasks_cache]
    /\ evFetches = {}
    /\ tkFetches = {}
    /\ muts = {}
    /\ fbWaiters = <<>>
    /\ remote = [events |-> RemoteUntitledEvent, tasks |-> InitRemoteTasks]
    /\ view = NoFrame
    /\ limits = [mutations |-> MaxEditMutations, manual |-> 0, months |-> 0]

\* the loop of App::run has ended (quit, or a panic on the UI thread)
Stopped == app.panicked \/ app.exit

SpawnedOf(a, kind) ==
    { a.spawned[i].task : i \in { j \in DOMAIN a.spawned : a.spawned[j].kind = kind } }

\* the handler has returned: its record becomes the state and the tasks
\* it spawned start running
Commit(a) ==
    /\ app' = [a EXCEPT !.spawned = <<>>]
    /\ evFetches' = evFetches \cup SpawnedOf(a, "ev")
    /\ tkFetches' = tkFetches \cup SpawnedOf(a, "tk")
    /\ muts' = muts \cup SpawnedOf(a, "mut")

TodayNum == DayNum(Today)

MonthIndex(dt) == dt.y * 12 + (dt.m - 1)

WithinBounds(a) ==
    /\ a.g_mutCount <= limits.mutations
    /\ a.g_manual <= limits.manual
    /\ a.cursor_line <= MaxCursor
    /\ Len(a.input_buffer) <= MaxBuf
    /\ IF "years" \in DOMAIN limits THEN a.current_date.y \in limits.years
       ELSE IF DayNum(a.current_date) - TodayNum \in 0..NavDays THEN TRUE
       ELSE /\ a.current_date.d = Today.d
            /\ MonthIndex(a.current_date) - MonthIndex(Today)
                  \in (0 - limits.months)..limits.months

\* ------------------------------------------------- the UI thread (run)
\* the refresh that is skipped while the result of an earlier one is
\* still awaited
maybe_refresh_unless_pending(a) ==
    IF a.needs_refresh
    THEN [(IF a.g_events_src.gen < a.g_evGen THEN a
           ELSE start_background_refresh(a)) EXCEPT !.needs_refresh = FALSE]
    ELSE a

\* if self.needs_refresh { start_background_refresh(); needs_refresh = false }
maybe_refresh(a) ==
    IF a.needs_refresh
    THEN [start_background_refresh(a) EXCEPT !.needs_refresh = FALSE]
    ELSE a

\* the key read by this iteration, if any, goes to input_handle_key_event
\* while inputting and to handle_key_event otherwise
dispatch_key(a, key, overflow_checks) ==
    IF key = "none" THEN a
    ELSE IF a.inputting THEN input_handle_key_event(a, key)
    ELSE handle_key_event(a, key, overflow_checks)

\* the loop body with the refresh started before the channels are polled
run_iteration_refresh_first(a, key, overflow_checks) ==
    The({ IF a1.panicked THEN a1
          ELSE The({ check_updates(a2) : a2 \in {maybe_refresh(a1)} }) :
            a1 \in {dispatch_key(a, key, overflow_checks)} })

\* the loop body of run after the draw: the key, then
\* check_updates, then the refresh; a panic in the key handler unwinds
run_iteration(a, key, overflow_checks) ==
    The({ IF a1.panicked THEN a1
          ELSE The({ maybe_refresh(a2) : a2 \in {check_updates(a1)} }) :
            a1 \in {dispatch_key(a, key, overflow_checks)} })

\* one iteration of the loop of run: the draw, then the key that was read
\* ("none": the poll timed out), check_updates and the refresh
Tick(key, overflow_checks) ==
    /\ ~Stopped
    /\ check_updates_returns(app)
    /\ view' = draw(app)
    /\ \E a \in {run_iteration(app, key, overflow_checks)} :
          WithinBounds(a) /\ Commit(a)
    /\ UNCHANGED <<fbWaiters, remote, disk, limits>>

HandleKey(key) == ~app.inputting /\ Tick(key, FALSE)
HandleInputKey(key) == app.inputting /\ Tick(key, FALSE)

KeyQuit == HandleKey("q")
KeyLeft == HandleKey("Left")
KeyRight == HandleKey("Right")
KeyUp == HandleKey("Up")
\* the build decides what `len - 1` does on an empty list
KeyDown ==
    ~app.inputting /\ \E overflow_checks \in BOOLEAN : Tick("Down", overflow_checks)
KeyNextMonth == HandleKey(">")
KeyPrevMonth == HandleKey("<")
KeyNextYear == HandleKey("y")
KeyPrevYear == HandleKey("Y")
KeyDelete == HandleKey("D")
KeyConfirm == HandleKey("Enter")
KeyToggleEvents == HandleKey("E")
KeyToggleTasks == HandleKey("T")
KeyToday == HandleKey("t")
KeyRefresh == HandleKey("R")
KeyOpenInput == HandleKey("o")
KeyStartEdit == HandleKey("a")
KeyToggleCompleted == HandleKey(" ")
KeyClearCompleted == HandleKey("L")

TypedChars == {"x", " "}

InputChar == \E ch \in TypedChars : HandleInputKey(ch)
InputEnter == HandleInputKey("Enter")
InputEsc == HandleInputKey("Esc")

InputWideChar == HandleInputKey(WideChar)
InputLeft == HandleInputKey("Left")
InputRight == HandleInputKey("Right")
InputBackspace == HandleInputKey("Backspace")
InputDelete == HandleInputKey("Delete")
InputHome == HandleInputKey("C-a")
InputEnd == HandleInputKey("C-e")
InputKillBefore == HandleInputKey("C-u")
InputKillAfter == HandleInputKey("C-k")

\* poll(250ms) timed out: no key this tick
NoKey == Tick("none", FALSE)

\* ------------------------------------------------- the spawned tasks
\* get_calendar_hub().await.ok() sent on the oneshot channel
AuthCalendar ==
    /\ ~Stopped /\ app.calendar_hub_rx = "waiting"
    /\ \E hub \in {"some", "none"} : app' = [app EXCEPT !.calendar_hub_rx = hub]
    /\ UNCHANGED <<evFetches, tkFetches, muts, fbWaiters, remote, disk, view, limits>>

AuthTasks ==
    /\ ~Stopped /\ app.tasks_hub_rx = "waiting"
    /\ \E hub \in {"some", "none"} : app' = [app EXCEPT !.tasks_hub_rx = hub]
    /\ UNCHANGED <<evFetches, tkFetches, muts, fbWaiters, remote, disk, view, limits>>

\* A fetch task in two steps.  First its list calls reach the remote
\* store (t.seen is what the store held then).  Then fetch_events returns:
\* calendar_list().list() failed (None: the task ends without saving or
\* sending), or the map of the calendars whose events().list() succeeded;
\* the task saves the map and sends it, and the send fails when the
\* receiver of this refresh is no longer the stored one.
FetchEventsCalls ==
    /\ ~Stopped
    /\ \E t \in evFetches :
         /\ t.pc = "fetch"
         /\ evFetches' = (evFetches \ {t}) \cup
                           {[t EXCEPT !.pc = "return", !.seen = remote.events]}
    /\ UNCHANGED <<app, tkFetches, muts, fbWaiters, remote, disk, view, limits>>

FetchEventsReturn(enumerated, failed) ==
    /\ ~Stopped
    /\ \E t \in evFetches :
         /\ t.pc = "return"
         /\ evFetches' = evFetches \ {t}
         /\ IF enumerated
            THEN LET new_events == fetch_events(EmptyMap, Calendars, t.seen, failed)
                 IN /\ disk' = [disk EXCEPT !.events_file = new_events]
                    /\ app' = IF app.events_update_rx.gen = t.chan
                              THEN [app EXCEPT !.events_update_rx.buf =
                                      <<[map |-> new_events, gen |-> t.gen,
                                         failed |-> failed]>>]
                              ELSE [app EXCEPT !.g_ev_dropped = @ \cup {t.gen}]
            ELSE UNCHANGED <<app, disk>>
    /\ UNCHANGED <<tkFetches, muts, fbWaiters, remote, view, limits>>

\* every list call of the fetch succeeded
FetchEventsOk == FetchEventsReturn(TRUE, {})

\* the enumeration failed, or the listing of some calendars did
FetchEventsFail ==
    \E enumerated \in BOOLEAN, failed \in SUBSET SeqToSet(Calendars) :
        /\ ~enumerated \/ failed # {}
        /\ FetchEventsReturn(enumerated, failed)

FetchTasksCalls ==
    /\ ~Stopped
    /\ \E t \in tkFetches :
         /\ t.pc = "fetch"
         /\ tkFetches' = (tkFetches \ {t}) \cup
                           {[t EXCEPT !.pc = "return", !.seen = remote.tasks]}
    /\ UNCHANGED <<app, evFetches, muts, fbWaiters, remote, disk, view, limits>>

FetchTasksReturn(enumerated, failed) ==
    /\ ~Stopped
    /\ \E t \in tkFetches :
         /\ t.pc = "return"
         /\ tkFetches' = tkFetches \ {t}
         /\ IF enumerated
            THEN LET new_tasks == fetch_tasks(<<>>, TaskLists, t.seen, failed)
                 IN /\ disk' = [disk EXCEPT !.tasks_file = new_tasks]
                    /\ app' = IF app.tasks_update_rx.gen = t.chan
                              THEN [app EXCEPT !.tasks_update_rx.buf =
                                      <<[all_tasks |-> new_tasks, gen |-> t.gen,
                                         failed |-> failed]>>]
                              ELSE [app EXCEPT !.g_tk_dropped = @ \cup {t.gen}]
            ELSE UNCHANGED <<app, disk>>
    /\ UNCHANGED <<evFetches, muts, fbWaiters, remote, view, limits>>

FetchTasksOk == FetchTasksReturn(TRUE, {})

FetchTasksFail ==
    \E enumerated \in BOOLEAN, failed \in SUBSET SeqToSet(TaskLists) :
        /\ ~enumerated \/ failed # {}
        /\ FetchTasksReturn(enumerated, failed)

\* the remote call of a mutation task returns (a hung call never does);
\* the task then queues for the slot of the feedback channel.  A patch
\* task that unwraps an absent id panics and ends without a message.
MutationReturns ==
    /\ ~Stopped
    /\ \E t \in muts, outcome \in {"ok", "fail", "no_tasklist"} :
         /\ outcome = "ok" => TargetKnown(remote, t)
         /\ outcome = "no_tasklist" => t.op = "insert_task"
         /\ muts' = muts \ {t}
         /\ IF t.op \in {"patch_event", "patch_task"} /\ t.target = NoneV
            THEN UNCHANGED <<remote, fbWaiters>>
            ELSE /\ remote' = IF outcome = "ok" THEN ApplyMutation(remote, t)
                              ELSE remote
                 /\ fbWaiters' = Append(fbWaiters,
                      IF outcome = "no_tasklist"
                      THEN [text |-> "No Tasklist!", color |-> "Red", id |-> t.id]
                      ELSE FeedbackMsg(t, outcome = "ok"))
    /\ UNCHANGED <<app, evFetches, tkFetches, disk, view, limits>>

\* tx.try_send(msg): the message is lost when the slot is taken
FeedbackTrySend ==
    /\ ~Stopped
    /\ fbWaiters # <<>>
    /\ app' = IF app.change_feedback_rx = <<>>
              THEN [app EXCEPT !.change_feedback_rx = <<Head(fbWaiters)>>]
              ELSE app
    /\ fbWaiters' = Tail(fbWaiters)
    /\ UNCHANGED <<evFetches, tkFetches, muts, remote, disk, view, limits>>

\* tx.send(msg).await completes for the longest-waiting sender once the
\* single slot of the channel is free
FeedbackSend ==
    /\ ~Stopped
    /\ fbWaiters # <<>> /\ app.change_feedback_rx = <<>>
    /\ app' = [app EXCEPT !.change_feedback_rx = <<Head(fbWaiters)>>]
    /\ fbWaiters' = Tail(fbWaiters)
    /\ UNCHANGED <<evFetches, tkFetches, muts, remote, disk, view, limits>>

UINext ==
    \/ KeyQuit \/ KeyLeft \/ KeyRight \/ KeyUp \/ KeyDown \/ KeyDelete
    \/ KeyNextMonth \/ KeyPrevMonth \/ KeyNextYear \/ KeyPrevYear
    \/ KeyConfirm \/ KeyToggleEvents \/ KeyToggleTasks \/ KeyToday
    \/ KeyRefresh \/ KeyOpenInput \/ KeyStartEdit \/ KeyToggleCompleted
    \/ KeyClearCompleted \/ InputChar \/ InputEnter \/ InputEsc
    \/ NoKey

BackgroundNext ==
    \/ AuthCalendar \/ AuthTasks
    \/ FetchEventsCalls \/ FetchEventsOk \/ FetchEventsFail
    \/ FetchTasksCalls \/ FetchTasksOk \/ FetchTasksFail
    \/ MutationReturns \/ FeedbackSend

Next == UINext \/ BackgroundNext

\* the whole program
Spec == Init /\ [][Next]_vars

\* startup and manual refreshes, every list call free to fail
NextRefresh ==
    \/ NoKey \/ KeyRefresh
    \/ AuthCalendar \/ AuthTasks
    \/ FetchEventsCalls \/ FetchEventsOk \/ FetchEventsFail
    \/ FetchTasksCalls \/ FetchTasksOk \/ FetchTasksFail

SpecRefresh == Init /\ [][NextRefresh]_vars

\* after startup: the overlays and the mutations of the selected item,
\* the refreshes that follow them (their list calls succeed)
NextMutate ==
    \/ NoKey \/ KeyToggleEvents \/ KeyToggleTasks
    \/ KeyDelete \/ KeyToggleCompleted \/ KeyClearCompleted
    \/ FetchEventsCalls \/ FetchEventsOk \/ FetchTasksCalls \/ FetchTasksOk
    \/ MutationReturns \/ FeedbackSend

SpecMutate == InitMutate /\ [][NextMutate]_vars

\* after startup: every key but the manual refresh
NextEdit ==
    \/ KeyQuit \/ KeyLeft \/ KeyRight \/ KeyUp \/ KeyDown \/ KeyDelete
    \/ KeyConfirm \/ KeyToggleEvents \/ KeyToggleTasks \/ KeyToday
    \/ KeyOpenInput \/ KeyStartEdit \/ KeyToggleCompleted
    \/ KeyClearCompleted \/ InputChar \/ InputEnter \/ InputEsc \/ NoKey
    \/ FetchEventsCalls \/ FetchEventsOk \/ FetchTasksCalls \/ FetchTasksOk
    \/ MutationReturns \/ FeedbackSend

SpecEdit == InitEdit /\ [][NextEdit]_vars

\* after startup: the viewport moved by months and years, and drawn
NextGrid ==
    \/ NoKey \/ KeyNextMonth \/ KeyPrevMonth \/ KeyNextYear \/ KeyPrevYear

SpecGrid == InitGrid /\ [][NextGrid]_vars

\* after startup: edit sessions opened from the calendar and the overlays,
\* every key of the input line
NextInput ==
    \/ NoKey \/ KeyToggleEvents \/ KeyToggleTasks
    \/ KeyOpenInput \/ KeyStartEdit
    \/ InputChar \/ InputWideChar \/ InputEnter \/ InputEsc
    \/ InputLeft \/ InputRight \/ InputBackspace \/ InputDelete
    \/ InputHome \/ InputEnd \/ InputKillBefore \/ InputKillAfter

SpecInput == InitEdit /\ [][NextInput]_vars

\* after startup with two tasks: the list cursor of the overlays, the
\* deletion of the selected item and the refresh that follows
NextCursor ==
    \/ NoKey \/ KeyToggleEvents \/ KeyToggleTasks
    \/ KeyLeft \/ KeyRight \/ KeyUp \/ KeyDown \/ KeyDelete
    \/ FetchEventsCalls \/ FetchEventsOk \/ FetchTasksCalls \/ FetchTasksOk
    \/ MutationReturns \/ FeedbackSend

SpecCursor == InitCursor /\ [][NextCursor]_vars

\* after startup with an untitled event: edit sessions started on the
\* selected item of an overlay or from the calendar
NextStartEdit ==
    \/ NoKey \/ KeyToggleEvents \/ KeyToggleTasks \/ KeyUp \/ KeyDown
    \/ KeyStartEdit \/ KeyOpenInput \/ InputChar \/ InputEnter \/ InputEsc
    \/ FetchEventsCalls \/ FetchEventsOk \/ FetchTasksCalls \/ FetchTasksOk
    \/ MutationReturns \/ FeedbackSend

SpecStartEdit == InitStartEdit /\ [][NextStartEdit]_vars

\* SpecMutate with the scheduling the runtime gives: the loop of run keeps
\* iterating (poll returns within 250 ms) and a sender waiting for the
\* free slot of the feedback channel is woken
SpecMutateLive ==
    InitMutate /\ [][NextMutate]_vars /\ WF_vars(NoKey) /\ WF_vars(FeedbackSend)

\* ------------------------------------------------------------ properties
\* C1: for events and for tasks independently, a snapshot that is installed
\* into the cache comes from the refresh of its kind that was started
\* last: the result of a refresh superseded before it was installed is
\* never installed, in whatever order the two fetches return.
C1_OnlyLatestRefreshInstalled ==
    [][ /\ app'.g_events_src # app.g_events_src
             => app'.g_events_src.gen = app.g_evGen
        /\ app'.g_tasks_src # app.g_tasks_src
             => app'.g_tasks_src.gen = app.g_tkGen ]_vars

\* the first events refresh found its channel closed and the second one
\* was installed
C1_Witness == 1 \in app.g_ev_dropped /\ app.g_events_src.gen = 2

\* C2: when a list call of a refresh fails, the cache is left as it was:
\* no installed snapshot lacks the entries of a collection whose listing
\* failed.
C2_NoPartialSnapshotInstalled ==
    app.g_events_src.failed = {} /\ app.g_tasks_src.failed = {}

\* C3: the events map and the task list change only when the loop drains
\* the channel of their own kind, and then to the whole value of the one
\* message in it; dispatching or completing a mutation changes neither.
C3_CacheChangesOnlyByDrain ==
    [][ /\ app'.events_cache # app.events_cache
             => /\ app.events_update_rx.buf # <<>>
                /\ app'.events_cache = app.events_update_rx.buf[1].map
        /\ app'.tasks_cache # app.tasks_cache
             => /\ app.tasks_update_rx.buf # <<>>
                /\ app'.tasks_cache = app.tasks_update_rx.buf[1].all_tasks ]_vars

\* a mutation completed, its status was installed and the refresh that
\* followed replaced the events map
C3_Witness ==
    /\ app.g_installed # {}
    /\ app.g_events_src.gen >= 2
    /\ app.events_cache # InitSnapshotEvents

\* C4: a refresh is started only when a hub resolves present, on the
\* manual refresh key, or after a mutation whose status message reports
\* success; a failure message starts none.
C4_RefreshOnlyAfterSuccess ==
    [][ (app'.g_evGen # app.g_evGen \/ app'.g_tkGen # app.g_tkGen)
          => \/ app.calendar_hub_rx = "some"
             \/ app.tasks_hub_rx = "some"
             \/ app'.g_manual # app.g_manual
             \/ /\ app.change_feedback_rx # <<>>
                /\ app.change_feedback_rx[1].color = "Green" ]_vars

\* the messages of mutation `id` that are waiting to be sent, in the
\* channel, or installed
MessagesOf(id) ==
    Cardinality({i \in DOMAIN fbWaiters : fbWaiters[i].id = id})
      + (IF app.change_feedback_rx # <<>> /\ app.change_feedback_rx[1].id = id
         THEN 1 ELSE 0)
      + (IF id \in app.g_installed THEN 1 ELSE 0)

\* C5: every dispatched mutation whose remote call has returned has emitted
\* exactly one status message, and a message that was emitted is
\* eventually installed as the mutation status by a tick, also when
\* several mutations complete between two ticks.
C5_OneMessageEventuallyInstalled ==
    /\ [](\A id \in 1..app.g_mutCount :
            IF \E t \in muts : t.id = id THEN MessagesOf(id) = 0
            ELSE MessagesOf(id) = 1)
    /\ \A id \in 1..MaxMutations :
            (MessagesOf(id) = 1) ~> (id \in app.g_installed)

\* two mutations completed between two ticks: one message is in the
\* channel and the other sender waits for the slot
C5_Witness == app.change_feedback_rx # <<>> /\ fbWaiters # <<>>

\* what the claim says a handler leaves of the record `a` when the hub it
\* needs is absent
OfflineOutcome(a, b) ==
    /\ b.changing_status.text = "Offline"
    /\ b.spawned = <<>>
    /\ b.events_cache = a.events_cache
    /\ b.tasks_cache = a.tasks_cache
    /\ ~b.panicked /\ ~b.exit

\* the hub the submitted text needs is absent
SubmitOffline ==
    /\ ~Stopped /\ app.inputting
    /\ IF app.app_layout.tag = "Tasks" THEN ~app.task_hub ELSE ~app.event_hub

EventIntentOffline ==
    ~Stopped /\ ~app.inputting /\ app.app_layout.tag = "Events" /\ ~app.event_hub

TaskIntentOffline ==
    ~Stopped /\ ~app.inputting /\ app.app_layout.tag = "Tasks" /\ ~app.task_hub

\* C6 as stated: any create, update, delete, toggle-completed or
\* clear-completed intent issued while the hub it needs is absent sets the
\* status to "Offline", spawns nothing, leaves the cache and the loop goes on.
C6_AnyIntentOffline ==
    /\ SubmitOffline
         => OfflineOutcome(app, input_handle_key_event(app, "Enter"))
    /\ EventIntentOffline
         => OfflineOutcome(app, handle_key_event(app, "D", FALSE))
    /\ TaskIntentOffline
         => \A key \in {"D", " ", "L"} :
                OfflineOutcome(app, handle_key_event(app, key, FALSE))

\* C6 amended: the same for an intent that names something: text that is
\* not blank, a selected item (with an id for delete and toggle).
C6_IntentWithTargetOffline ==
    /\ (SubmitOffline /\ Trim(app.input_buffer) # <<>>)
         => OfflineOutcome(app, input_handle_key_event(app, "Enter"))
    /\ (EventIntentOffline /\ selected_event(app) # NoneV)
         => (selected_event(app)[1].ev.id # NoneV
               => OfflineOutcome(app, handle_key_event(app, "D", FALSE)))
    /\ (TaskIntentOffline /\ selected_task(app) # NoneV)
         => /\ OfflineOutcome(app, handle_key_event(app, "L", FALSE))
            /\ selected_task(app)[1].task.id # NoneV
                 => \A key \in {"D", " "} :
                        OfflineOutcome(app, handle_key_event(app, key, FALSE))

\* a task was selected, the tasks hub absent, and the key handler has left
\* the "Offline" status with nothing dispatched
C6_Witness ==
    /\ app.app_layout.tag = "Tasks" /\ ~app.task_hub
    /\ selected_task(app) # NoneV
    /\ app.changing_status = Status("Offline", "White")
    /\ app.g_mutCount = 0 /\ muts = {}

\* C7: after startup no sequence of keys, drains and completions ends the
\* loop through a panic of the UI thread.
C7_NoPanic == ~app.panicked

\* C8: whatever tasks are pending, the loop is never waiting: every receive
\* of check_updates returns, and a tick with or without a key can run.
C8_TickAlwaysEnabled ==
    ~Stopped => /\ check_updates_returns(app)
                /\ ENABLED NoKey
                /\ ~app.inputting => ENABLED KeyToggleEvents

\* a mutation call and both fetches are outstanding and the loop runs
C8_Witness ==
    ~Stopped /\ muts # {} /\ evFetches # {} /\ tkFetches # {}

\* C9: the status does not keep the "Refreshing" text once every refresh
\* has terminated: while it shows, a fetch is running or its result waits
\* in a channel.
C9_RefreshingOnlyWhileRunning ==
    app.refreshing_status.text = "Refreshing"
      => \/ evFetches # {} \/ tkFetches # {}
         \/ app.events_update_rx.buf # <<>>
         \/ app.tasks_update_rx.buf # <<>>

\* the least number of 7-day rows, from the Sunday on or before the 1st,
\* that hold every day of the month of dt
RowsNeeded(dt) ==
    (WeekdayFromSunday(Date(dt.y, dt.m, 1)) + DaysInMonth(dt.y, dt.m) + 6) \div 7

\* C10: the row count of the drawn grid is 4, 5 or 6 and is the least
\* number of rows that shows every day of the month.
C10_RowsCoverMonth ==
    view.drawn => view.rows \in {4, 5, 6} /\ view.rows = RowsNeeded(view.date)

\* C11: while the input line is open, the caret index is between 0 and the
\* number of characters of the buffer, after any keys of the input line
\* and across successive edit sessions, multi-byte characters included.
C11_CaretWithinBuffer ==
    app.inputting => app.cursor_index \in 0..char_count(app)

\* C12: back/escape while not editing: from the Events overlay the focus
\* becomes the calendar; from the Tasks overlay with the notes pane shown
\* it becomes the Tasks overlay with the pane hidden; from the Tasks
\* overlay with the pane hidden it becomes the calendar; the exit flag is
\* set only by back/quit with the calendar focused.
C12_BackLeavesOverlay ==
    (~Stopped /\ ~app.inputting) =>
        \A key \in {"q", "Esc"} :
            LET b == handle_key_event(app, key, FALSE) IN
            /\ app.app_layout = LayoutEvents
                 => b.app_layout = LayoutCalendar
            /\ app.app_layout = LayoutTasks(TRUE)
                 => b.app_layout = LayoutTasks(FALSE)
            /\ app.app_layout = LayoutTasks(FALSE)
                 => b.app_layout = LayoutCalendar
            /\ b.exit => app.app_layout = LayoutCalendar

\* the list the cursor of the focused overlay runs over
ActiveListLen(a) ==
    IF a.app_layout.tag = "Tasks" THEN Len(a.tasks_cache)
    ELSE Len(current_day_events(a))

OverlayFocused ==
    ~Stopped /\ ~app.inputting /\ app.app_layout.tag \in {"Events", "Tasks"}

\* C13: with an overlay focused, left and right change nothing; up and
\* down move the list cursor by one and keep it within 0..len-1 of the
\* active list, without wrapping; on an empty list up and down leave the
\* cursor where it is.
C13_OverlayCursorMoves ==
    OverlayFocused =>
        LET len == ActiveListLen(app)
            line == app.cursor_line
        IN /\ handle_key_event(app, "Left", FALSE) = app
           /\ handle_key_event(app, "Right", FALSE) = app
           /\ \A overflow_checks \in BOOLEAN :
                LET up == handle_key_event(app, "Up", overflow_checks)
                    down == handle_key_event(app, "Down", overflow_checks)
                IN IF len = 0
                   THEN up = app /\ down = app
                   ELSE line <= len - 1 =>
                          /\ up = [app EXCEPT !.cursor_line =
                                     IF line > 0 THEN line - 1 ELSE 0]
                          /\ down = [app EXCEPT !.cursor_line =
                                       IF line < len - 1 THEN line + 1 ELSE line]

\* C14: when the active list of the focused overlay becomes shorter the
\* list cursor is clamped in that step: in every state with an overlay
\* focused, cursor_line <= max(len - 1, 0).
C14_CursorClampedOnShrink ==
    app.app_layout.tag \in {"Events", "Tasks"} =>
        app.cursor_line <= (IF ActiveListLen(app) > 0
                            THEN ActiveListLen(app) - 1 ELSE 0)

\* this step installs an empty list in place of the one item of the
\* focused overlay, after a deletion was reported
InstallsEmptyList ==
    /\ app.g_installed # {}
    /\ app'.app_layout = app.app_layout
    /\ app.app_layout.tag \in {"Events", "Tasks"}
    /\ ActiveListLen(app) = 1
    /\ ActiveListLen(app') = 0

\* C15: once the only item of the focused overlay list has been deleted
\* and the refresh has installed the empty list, the list cursor is 0,
\* nothing is selected, and each later key of the overlay (up, down,
\* delete, start-edit, confirm, toggle) completes without a panic.
C15_EmptyListAfterDelete ==
    [][ InstallsEmptyList =>
          /\ app'.cursor_line = 0
          /\ IF app'.app_layout.tag = "Events"
             THEN selected_event(app') = NoneV
             ELSE selected_task(app') = NoneV
          /\ \A key \in {"Up", "Down", "D", "a", "Enter", " "},
                overflow_checks \in BOOLEAN :
                  ~handle_key_event(app', key, overflow_checks).panicked ]_vars

\* the mutation tasks the confirm key dispatches from the present state
SubmitDispatches ==
    SpawnedOf(input_handle_key_event(app, "Enter"), "mut")

\* C16: on submit of a buffer that is not blank, a mutation dispatched
\* while the update flag is set is a patch of the selected item (its id,
\* its calendar or task list) carrying the trimmed text, never an insert;
\* with the flag not set it is an insert, of a task in the Tasks overlay
\* and of an event otherwise, never a patch.
C16_SubmitPatchesOrInserts ==
    (~Stopped /\ app.inputting /\ Trim(app.input_buffer) # <<>>) =>
        /\ Cardinality(SubmitDispatches) <= 1
        /\ \A t \in SubmitDispatches :
            /\ t.title = Trim(app.input_buffer)
            /\ IF app.updating_event_or_task
               THEN IF app.app_layout.tag = "Tasks"
                    THEN /\ t.op = "patch_task"
                         /\ selected_task(app) # NoneV
                         /\ t.target = selected_task(app)[1].task.id
                         /\ t.coll = selected_task(app)[1].list
                    ELSE /\ t.op = "patch_event"
                         /\ selected_event(app) # NoneV
                         /\ t.target = selected_event(app)[1].ev.id
                         /\ t.coll = selected_event(app)[1].cal
               ELSE t.op = IF app.app_layout.tag = "Tasks"
                           THEN "insert_task" ELSE "insert_event"

\* an update session was submitted and its patch is on its way
C16_Witness ==
    /\ ~app.inputting /\ ~app.updating_event_or_task
    /\ \E t \in muts : t.op \in {"patch_task", "patch_event"}
                         /\ t.target # NoneV /\ t.title = <<"x">>

\* the title of the item selected in the focused overlay, wrapped in
\* Some; NoneV when nothing is selected
SelectedTitle(a) ==
    IF a.app_layout.tag = "Tasks" /\ selected_task(a) # NoneV
    THEN Some(selected_task(a)[1].task.title)
    ELSE IF a.app_layout.tag = "Events" /\ selected_event(a) # NoneV
    THEN Some(selected_event(a)[1].ev.summary)
    ELSE NoneV

\* C17: the start-edit key: with an item selected in the focused overlay
\* the input line opens holding that item's title, the update flag set and
\* the caret at the end of the buffer; otherwise (calendar focus, empty
\* list) it opens with an empty buffer and the update flag clear.
C17_StartEditPrefills ==
    (~Stopped /\ ~app.inputting) =>
        LET b == handle_key_event(app, "a", FALSE)
            sel == SelectedTitle(app)
        IN IF sel # NoneV
           THEN /\ ~b.panicked /\ b.inputting
                /\ sel[1] # NoneV
                /\ b.input_buffer = sel[1][1]
                /\ b.updating_event_or_task
                /\ b.cursor_index = char_count(b)
           ELSE /\ ~b.panicked /\ b.inputting
                /\ b.input_buffer = <<>>
                /\ ~b.updating_event_or_task

\* C18: the confirm key of the input line ends edit mode within the same
\* key event and leaves the buffer empty in every branch (blank buffer,
\* create, update, hub present or absent); a buffer that trims to empty is
\* cancelled and no mutation is dispatched for it.
C18_ConfirmEndsEdit ==
    (~Stopped /\ app.inputting) =>
        LET b == input_handle_key_event(app, "Enter") IN
        /\ ~b.inputting
        /\ b.input_buffer = <<>>
        /\ Trim(app.input_buffer) = <<>>
             => /\ b.spawned = <<>>
                /\ b.g_mutCount = app.g_mutCount
                /\ ~b.updating_event_or_task
                /\ b.changing_status = app.changing_status

\* a create session was submitted: the input line is closed and empty and
\* the insert is on its way
C18_Witness ==
    /\ ~app.inputting /\ app.input_buffer = <<>>
    /\ \E t \in muts : t.op \in {"insert_task", "insert_event"}

\* C19: the auth status is Authenticating until the first hub message has
\* been drained; once one has, it is Online when the event hub or the task
\* hub is present and Offline otherwise; each of the two hub channels is
\* received from at most once (its receiver is dropped by the drain).
C19_AuthStatusFollowsHubs ==
    /\ [](IF app.calendar_hub_rx # "closed" /\ app.tasks_hub_rx # "closed"
          THEN /\ app.auth_status = "Authenticating"
               /\ ~app.event_hub /\ ~app.task_hub
          ELSE app.auth_status =
                 IF app.event_hub \/ app.task_hub THEN "Online" ELSE "Offline")
    /\ [][ /\ app.calendar_hub_rx = "closed" =>
                /\ app'.calendar_hub_rx = "closed"
                /\ app'.event_hub = app.event_hub
           /\ app.tasks_hub_rx = "closed" =>
                /\ app'.tasks_hub_rx = "closed"
                /\ app'.task_hub = app.task_hub ]_vars

\* both hub messages were drained, one hub present and one absent
C19_Witness ==
    /\ app.calendar_hub_rx = "closed" /\ app.tasks_hub_rx = "closed"
    /\ app.event_hub # app.task_hub
    /\ app.auth_status = "Online"


\* ---- parse_time_range applied to the texts confirmed in the input line
\* the pieces the typed texts are put together from
TokTime == <<"9", ":", "0", "5">>
TokLateTime == <<"1", "0", ":", "3", "0">>
TokBadTime == <<"2", "5", ":", "0", "0">>
TokDate == <<"2", "/", "2", "8">>
TokLateDate == <<"3", "/", "2">>
TokBadDate == <<"2", "/", "3", "0">>
TokYearDate == <<"2", "0", "2", "4", "/", "2", "/", "2", "9">>
TokBadYearDate == <<"2", "0", "2", "3", "/", "2", "/", "2", "9">>
TokYearEnd == <<"1", "2", "/", "3", "1">>
TokDash == <<"-">>
TokTitle == <<"x">>
Gaps == {<<>>, <<" ">>}

\* the arguments `input` of parse_time_range: an optional date, an
\* optional time or date, an optional dash, an optional time or date and
\* an optional title, with or without a space between them
ParseTexts ==
    { t1 \o g1 \o t2 \o g2 \o t3 \o g3 \o t4 \o g4 \o t5 :
        t1 \in {<<>>, TokDate, TokLateDate, TokBadDate, TokYearDate,
                TokBadYearDate, TokYearEnd},
        g1 \in Gaps,
        t2 \in {<<>>, TokTime, TokLateTime, TokBadTime, TokDate, TokYearDate},
        g2 \in Gaps,
        t3 \in {<<>>, TokDash},
        g3 \in Gaps,
        t4 \in {<<>>, TokTime, TokLateTime, TokDate, TokLateDate, TokBadDate,
                TokYearDate, TokBadYearDate},
        g4 \in Gaps,
        t5 \in {<<>>, TokTitle} }

\* the dates selected on the calendar when the text is typed: today, and
\* the same day two months back, in the year before
ContextDates == {Today, AddMonths(Today, 0 - 2)}

\* after startup with both hubs, a date selected on the calendar, 'o'
\* pressed and a text typed into the input line
InitParse ==
    /\ \E text \in ParseTexts, date \in ContextDates :
         app = [Started(TRUE, TRUE, TRUE) EXCEPT
                  !.current_date = date,
                  !.inputting = TRUE,
                  !.input_buffer = text,
                  !.cursor_index = Len(text)]
    /\ disk = [events_file |-> app.events_cache,
               tasks_file |-> app.tasks_cache]
    /\ evFetches = {}
    /\ tkFetches = {}
    /\ muts = {}
    /\ fbWaiters = <<>>
    /\ remote = [events |-> InitRemoteEvents, tasks |-> InitRemoteTasks]
    /\ view = NoFrame
    /\ limits = [mutations |-> MaxEditMutations, manual |-> 0, months |-> 2]

\* the typed text confirmed or dropped, the insert and its feedback
NextParse ==
    \/ NoKey \/ InputEnter \/ InputEsc
    \/ MutationReturns \/ FeedbackSend

SpecParse == InitParse /\ [][NextParse]_vars

\* the seven patterns in the order of their precedence
Patterns ==
    << time_re, date_time_re, year_date_time_re, date_re, year_date_re,
       only_date_re, only_year_date_re >>

\* what the arm of the i-th pattern returns for its captures
ArmResult(i, input, current_date) ==
    LET caps == captures(Patterns[i], input)[1]
    IN CASE i = 1 -> TimeArm(input, caps, current_date)
         [] i = 2 -> DateTimeArm(input, caps, current_date)
         [] i = 3 -> YearDateTimeArm(input, caps)
         [] i = 4 -> DateArm(input, caps, current_date)
         [] i = 5 -> YearDateArm(input, caps)
         [] i = 6 -> OnlyDateArm(input, caps, current_date)
         [] i = 7 -> OnlyYearDateArm(input, caps)

\* the patterns whose shape the text has
Matching(input) ==
    { i \in DOMAIN Patterns : captures(Patterns[i], input) # NoneV }

FirstMatching(input) ==
    CHOOSE i \in Matching(input) : \A j \in Matching(input) : i <= j

\* the all-day event on the selected date that an insert falls back to
AllDayOn(summary, date) ==
    [summary |-> Some(summary),
     start |-> Some(EventDateTime(Some(date), NoneV)),
     end |-> Some(EventDateTime(Some(Succ(date)), NoneV))]

\* the event of an insert whose text was parsed as `parsed`
InsertOf(parsed, date) ==
    EventFromParsed(parsed, AllDayOn(parsed.summary, date))

\* C20: the event of every dispatched insert is the one given by the
\* first of the seven patterns, in their fixed order, that the trimmed
\* text matches (here: whenever the values captured by that pattern are
\* valid), and by the whole text as the title when it matches none; a
\* text with the shape of a range and of a single date gives the range;
\* a text that does not begin with a digit, or holds no whitespace, matches
\* none
C20_FirstPatternWins ==
    \A t \in muts :
        t.op = "insert_event" =>
            /\ IF Matching(t.title) = {}
               THEN t.payload = Some(InsertOf(Unparsed(t.title), t.date))
               ELSE LET r == ArmResult(FirstMatching(t.title), t.title, t.date)
                    IN r # Unparsed(t.title) =>
                           t.payload = Some(InsertOf(r, t.date))
            /\ (\/ ~IsDigit(Head(t.title))
                \/ \A i \in DOMAIN t.title : ~IsSpace(t.title[i]))
                  => t.payload = Some(InsertOf(Unparsed(t.title), t.date))

\* an insert is in flight whose text has the shape of the date range and
\* of the single date, and its event spans the range
C20_Witness ==
    \E t \in muts :
        /\ t.op = "insert_event"
        /\ {4, 6} \subseteq Matching(t.title)
        /\ t.payload # NoneV
        /\ t.payload[1].summary = Some(TokTitle)
        /\ t.payload[1].start[1].date = Some(Date(2021, 2, 28))
        /\ t.payload[1].end[1].date = Some(Date(2021, 3, 2))


\* the patterns whose shape the text has and whose captured values are
\* valid calendar and time values
ValidMatching(input, current_date) ==
    { i \in Matching(input) : ArmResult(i, input, current_date) # Unparsed(input) }

\* the result when a pattern with invalid values counts as no match: the
\* arm of the first pattern, in order, that matches with valid values,
\* and the whole text as the title when there is none
FallThroughResult(input, current_date) ==
    IF ValidMatching(input, current_date) = {} THEN Unparsed(input)
    ELSE ArmResult(CHOOSE i \in ValidMatching(input, current_date) :
                       \A j \in ValidMatching(input, current_date) : i <= j,
                   input, current_date)

\* C21: a pattern whose shape matches but whose values are invalid is
\* passed over and the later patterns are still tried, so the event of
\* every dispatched insert is the one of the first pattern that matches
\* with valid values, and the whole-text fallback only when none does
C21_InvalidFallsThrough ==
    \A t \in muts :
        t.op = "insert_event" =>
            t.payload = Some(InsertOf(FallThroughResult(t.title, t.date), t.date))


\* the start of an event payload is not after its end
StartNotAfterEnd(event) ==
    event.start # NoneV /\ event.end # NoneV =>
        IF event.start[1].date_time # NoneV /\ event.end[1].date_time # NoneV
        THEN event.start[1].date_time[1] <= event.end[1].date_time[1]
        ELSE event.start[1].date # NoneV /\ event.end[1].date # NoneV =>
                 DayNum(event.start[1].date[1]) <= DayNum(event.end[1].date[1])

\* C22: every event payload built from the output of parse_time_range
\* and dispatched as an insert or a patch has its start at or before its
\* end (timed: the date-times; all-day: the start date and the exclusive
\* end date)
C22_StartNotAfterEnd ==
    \A t \in muts :
        t.op \in {"insert_event", "patch_event"} => StartNotAfterEnd(t.payload[1])


\* ---- the values typed in the pieces of the texts
ValidTimeToks == {TokTime, TokLateTime}
ShortDateToks == {TokDate, TokLateDate, TokYearEnd}
ValidDateToks == ShortDateToks \cup {TokYearDate}

\* the time typed in a piece
TimeOfTok(tok) ==
    IF tok = TokTime THEN [h |-> 9, mi |-> 5] ELSE [h |-> 10, mi |-> 30]

\* the date typed in a piece: the short forms in the year of the context
\* date, the long form in the typed year
DateOfTok(tok, current_date) ==
    CASE tok = TokDate -> Date(current_date.y, 2, 28)
      [] tok = TokLateDate -> Date(current_date.y, 3, 2)
      [] tok = TokYearEnd -> Date(current_date.y, 12, 31)
      [] tok = TokYearDate -> Date(2024, 2, 29)

\* the timed text "<start> - <end> x", after the date `prefix` if any
TimedText(prefix, s, e) ==
    (IF prefix = <<>> THEN <<>> ELSE prefix \o <<" ">>)
       \o s \o <<" ">> \o TokDash \o <<" ">> \o e \o <<" ">> \o TokTitle

\* the result for a timed text whose times are on the date `date`
TimedOn(date, s, e) ==
    ParsedRange(TokTitle,
                Some(NaiveDateTime_new(date, TimeOfTok(s))),
                Some(NaiveDateTime_new(date, TimeOfTok(e))),
                NoneV, NoneV)

\* C23: a time-only range is put on the context date, a short M/D form
\* in the year of the context date, a YYYY/M/D form in the typed year; a
\* timed text gives start and end on that one date with the typed times,
\* no all-day fields and the trimmed remainder as the title, and the
\* dispatched insert is the timed event of these values
C23_DatesResolvedFromPattern ==
    \A t \in muts :
        t.op = "insert_event" =>
            /\ \A prefix \in ValidDateToks \cup {<<>>}, s \in ValidTimeToks,
                  e \in ValidTimeToks :
                  t.title = TimedText(prefix, s, e) =>
                      LET date == IF prefix = <<>> THEN t.date
                                  ELSE DateOfTok(prefix, t.date)
                      IN /\ parse_time_range(t.title, t.date) = TimedOn(date, s, e)
                         /\ t.payload = Some(InsertOf(TimedOn(date, s, e), t.date))
                         /\ t.payload[1].start[1].date = NoneV
                         /\ t.payload[1].end[1].date = NoneV
            /\ \A d \in ValidDateToks :
                  t.title = d \o <<" ">> \o TokTitle =>
                      parse_time_range(t.title, t.date).start_date
                          = Some(DateOfTok(d, t.date))

\* an insert is in flight for "2/28 9:05 - 10:30 x" typed on 2020-12-14:
\* its event starts at 9:05 and ends at 10:30 of 2020-02-28, local time
C23_Witness ==
    \E t \in muts :
        /\ t.op = "insert_event"
        /\ t.title = TimedText(TokDate, TokTime, TokLateTime)
        /\ t.date = Date(2020, 12, 14)
        /\ t.payload[1].start[1].date_time
              = Some(to_utc([date |-> Date(2020, 2, 28), h |-> 9, mi |-> 5]))
        /\ t.payload[1].end[1].date_time
              = Some(to_utc([date |-> Date(2020, 2, 28), h |-> 10, mi |-> 30]))


\* the all-day text "<date> x"
SingleDateText(d) == d \o <<" ">> \o TokTitle

\* the all-day text "<first> - <last> x"
DateRangeText(d1, d2) ==
    d1 \o <<" ">> \o TokDash \o <<" ">> \o d2 \o <<" ">> \o TokTitle

\* C24: the all-day patterns return no timed fields; a range gives its
\* first date as the start and its second date, exactly as typed, as the
\* end; a single date gives that date as the start and the next calendar
\* day as the end, over the end of a month and of a year; the dispatched
\* insert is the all-day event of these values
C24_AllDayDates ==
    \A t \in muts :
        t.op = "insert_event" =>
            /\ \A d1 \in ValidDateToks, d2 \in ValidDateToks :
                  /\ t.title = DateRangeText(d1, d2)
                  /\ (d1 = TokYearDate) = (d2 = TokYearDate)
                  => LET r == ParsedRange(TokTitle, NoneV, NoneV,
                                          Some(DateOfTok(d1, t.date)),
                                          Some(DateOfTok(d2, t.date)))
                     IN /\ parse_time_range(t.title, t.date) = r
                        /\ t.payload = Some(InsertOf(r, t.date))
            /\ \A d \in ValidDateToks :
                  t.title = SingleDateText(d)
                  => LET r == ParsedRange(TokTitle, NoneV, NoneV,
                                          Some(DateOfTok(d, t.date)),
                                          Some(DateOfDayNum(DayNum(DateOfTok(d, t.date)) + 1)))
                     IN /\ parse_time_range(t.title, t.date) = r
                        /\ t.payload = Some(InsertOf(r, t.date))
                        /\ t.payload[1].start[1].date_time = NoneV
                        /\ t.payload[1].end[1].date_time = NoneV

\* an insert is in flight for "12/31 x" typed on 2020-12-14: its all-day
\* event starts on 2020-12-31 and ends on 2021-01-01
C24_Witness ==
    \E t \in muts :
        /\ t.op = "insert_event"
        /\ t.title = SingleDateText(TokYearEnd)
        /\ t.payload[1].start[1].date = Some(Date(2020, 12, 31))
        /\ t.payload[1].end[1].date = Some(Date(2021, 1, 1))

\* C28: a submit in event-create mode of a text that, trimmed, matches none
\* of the seven patterns dispatches an insert whose event has the whole
\* trimmed text as its title, the selected date as its all-day start, the
\* day after it as its all-day end, and no timed field
C28_FallbackInsert ==
    [][\A t \in muts' \ muts :
          /\ t.op = "insert_event"
          /\ app.inputting
          /\ Matching(Trim(app.input_buffer)) = {}
          => /\ t.payload # NoneV
             /\ t.payload[1].summary = Some(Trim(app.input_buffer))
             /\ t.payload[1].start =
                    Some([date |-> Some(app.current_date), date_time |-> NoneV])
             /\ t.payload[1].end =
                    Some([date |-> Some(DateOfDayNum(DayNum(app.current_date) + 1)),
                          date_time |-> NoneV])]_vars

\* an insert is in flight for the text "- x" typed on 2020-12-14: an all-day
\* event titled "- x" from 2020-12-14 to 2020-12-15
C28_Witness ==
    \E t \in muts :
        /\ t.op = "insert_event"
        /\ Matching(t.title) = {}
        /\ t.title = TokDash \o <<" ">> \o TokTitle
        /\ t.payload[1].summary = Some(t.title)
        /\ t.payload[1].start[1].date = Some(Date(2020, 12, 14))
        /\ t.payload[1].end[1].date = Some(Date(2020, 12, 15))

\* ---------------------------------------------------------------------
\* The task parser: a task is submitted, as a new task and as an update of
\* the selected one, with the buffer holding each text of TaskTexts.
TokLeapDate == <<"2", "/", "2", "9">>
TokNotes == <<"n", "o", "t", "e", "s", ":">>
TokNote == <<"y">>
TokSecondNotes == <<" ", "n", "o", "t", "e", "s", ":", " ", "z">>
WideGaps == {<<>>, <<" ">>, <<" ", " ">>}

TaskDateToks ==
    {TokDate, TokLateDate, TokYearEnd, TokLeapDate, TokBadDate, TokYearDate,
     TokBadYearDate}

\* the arguments `input` of parse_date_and_note: an optional date, an
\* optional title, an optional "notes:" with an optional text after it and
\* an optional second " notes: z", with no, one or two spaces between
TaskTexts ==
    { t1 \o g1 \o t2 \o g2 \o t3 \o g3 \o t4 \o t5 :
        t1 \in {<<>>} \cup TaskDateToks, g1 \in Gaps,
        t2 \in {<<>>, TokTitle}, g2 \in WideGaps,
        t3 \in {<<>>, TokNotes}, g3 \in WideGaps,
        t4 \in {<<>>, TokNote},
        t5 \in {<<>>, TokSecondNotes} }

InitTask ==
    /\ \E text \in TaskTexts, date \in ContextDates, updating \in BOOLEAN :
         app = [Started(TRUE, TRUE, TRUE) EXCEPT
                  !.current_date = date,
                  !.app_layout = LayoutTasks(FALSE),
                  !.updating_event_or_task = updating,
                  !.inputting = TRUE,
                  !.input_buffer = text,
                  !.cursor_index = Len(text)]
    /\ disk = [events_file |-> app.events_cache,
               tasks_file |-> app.tasks_cache]
    /\ evFetches = {}
    /\ tkFetches = {}
    /\ muts = {}
    /\ fbWaiters = <<>>
    /\ remote = [events |-> InitRemoteEvents, tasks |-> InitRemoteTasks]
    /\ view = NoFrame
    /\ limits = [mutations |-> MaxEditMutations, manual |-> 0, months |-> 2]

NextTask ==
    NoKey \/ InputEnter \/ InputEsc \/ MutationReturns \/ FeedbackSend

SpecTask == InitTask /\ [][NextTask]_vars

\* the text of a due date from its year and its two-digit month and day
DueText(y, mm, dd) ==
    to_string(y) \o <<"-">> \o mm \o <<"-">> \o dd
        \o <<"T", "0", "0", ":", "0", "0", ":", "0", "0", ".", "0", "0", "0", "Z">>

\* the due date each date piece names in the year `y`, None when it names
\* no date of the calendar
DueOfTok(tok, y) ==
    CASE tok = TokDate -> Some(DueText(y, <<"0", "2">>, <<"2", "8">>))
      [] tok = TokLateDate -> Some(DueText(y, <<"0", "3">>, <<"0", "2">>))
      [] tok = TokYearEnd -> Some(DueText(y, <<"1", "2">>, <<"3", "1">>))
      [] tok = TokLeapDate ->
            IF y = 2020 THEN Some(DueText(y, <<"0", "2">>, <<"2", "9">>))
            ELSE NoneV
      [] tok = TokYearDate -> Some(DueText(2024, <<"0", "2">>, <<"2", "9">>))
      [] OTHER -> NoneV

\* the date pieces the text begins with, each followed by a space
PrefixToks(input) ==
    { tok \in TaskDateToks :
        /\ Len(input) > Len(tok)
        /\ SubSeq(input, 1, Len(tok) + 1) = tok \o <<" ">> }

\* the text handed to the notes step: the text after a date prefix that
\* names a date, trimmed, and the whole text otherwise
PassedOn(input, y) ==
    IF \E tok \in PrefixToks(input) : DueOfTok(tok, y) # NoneV
    THEN LET tok == CHOOSE k \in PrefixToks(input) : TRUE
         IN Trim(SubSeq(input, Len(tok) + 2, Len(input)))
    ELSE input

\* the tasks a step sends, insert or patch
NewTaskMuts == { t \in muts' \ muts : t.op \in {"insert_task", "patch_task"} }

\* C26: a submitted task text that begins with M/D or YYYY/M/D and a space,
\* naming a date (in the year of the selected date for the short form),
\* gives that date written YYYY-MM-DDT00:00:00.000Z as the due value, and
\* its title and notes are those of the text after the prefix; every other
\* text (no such prefix, or a prefix that is no date) gives no due value
\* and the title and notes of the whole text
C26_DateStep ==
    [][\A t \in NewTaskMuts :
          LET input == Trim(app.input_buffer)
              y == app.current_date.y
              task == t.payload[1]
              rest == NotesStep(PassedOn(input, y))
          IN /\ t.payload # NoneV
             /\ task.title = Some(rest.rem)
             /\ task.notes = rest.notes
             /\ \A tok \in PrefixToks(input) : task.due = DueOfTok(tok, y)
             /\ PrefixToks(input) = {} => task.due = NoneV
             /\ task.due # NoneV => PassedOn(input, y) # input]_vars

\* a task is in flight for "2/29 x notes: y" typed on 2020-12-14: due on
\* 2020-02-29, title "x", notes "y"
C26_Witness ==
    \E t \in muts :
        /\ t.op = "insert_task"
        /\ t.date = Date(2020, 12, 14)
        /\ t.title = TokLeapDate \o <<" ">> \o TokTitle \o <<" ">> \o TokNotes
                        \o <<" ">> \o TokNote
        /\ t.payload[1].due = Some(DueText(2020, <<"0", "2">>, <<"2", "9">>))
        /\ t.payload[1].title = Some(TokTitle)
        /\ t.payload[1].notes = Some(TokNote)

\* the notes marker: one space, "notes:", one space
NotesMark == <<" ">> \o TokNotes \o <<" ">>

\* where the text holds the marker with something after it: the number of
\* characters before each such marker
MarkedAt(s) ==
    { p \in 0..Len(s) :
        /\ p + Len(NotesMark) < Len(s)
        /\ SubSeq(s, p + 1, p + Len(NotesMark)) = NotesMark }

FirstMark(s) == CHOOSE p \in MarkedAt(s) : \A q \in MarkedAt(s) : p <= q

\* C27: with the text handed to the notes step holding " notes: " and
\* something after it, the title of the submitted task is the trimmed
\* text before the first such marker and the notes are everything after
\* it; without one the notes are absent and the title is that text; after
\* a date prefix that was consumed, title and notes are those the text
\* after the prefix has on its own; and the due value is that of the text
\* without its notes suffix
C27_NotesStep ==
    [][\A t \in NewTaskMuts :
          LET input == Trim(app.input_buffer)
              y == app.current_date.y
              task == t.payload[1]
              s == PassedOn(input, y)
          IN /\ IF MarkedAt(s) # {}
                THEN /\ task.title = Some(Trim(SubSeq(s, 1, FirstMark(s))))
                     /\ task.notes =
                            Some(SubSeq(s, FirstMark(s) + Len(NotesMark) + 1, Len(s)))
                     /\ task.due =
                            parse_date_and_note(
                                SubSeq(input, 1, Len(input) - Len(s) + FirstMark(s)),
                                y).due
                ELSE /\ task.title = Some(s)
                     /\ task.notes = NoneV
             /\ s # input =>
                   /\ task.title = Some(parse_date_and_note(s, y).title)
                   /\ task.notes = parse_date_and_note(s, y).notes]_vars

\* a patch of the selected task is in flight for "12/31 x  notes:  y notes: z"
\* typed on 2021-02-14: title "x", notes " y notes: z", due on 2021-12-31
C27_Witness ==
    \E t \in muts :
        /\ t.op = "patch_task"
        /\ t.date = Today
        /\ t.title = TokYearEnd \o <<" ">> \o TokTitle \o <<" ", " ">> \o TokNotes
                        \o <<" ", " ">> \o TokNote \o TokSecondNotes
        /\ t.payload[1].title = Some(TokTitle)
        /\ t.payload[1].notes = Some(<<" ">> \o TokNote \o TokSecondNotes)
        /\ t.payload[1].due = Some(DueText(2021, <<"1", "2">>, <<"3", "1">>))

\* ---------------------------------------------------------------------
\* Both parsers on every text: the selected event is updated from the
\* calendar, and a task is created from the task list.
InitTotal ==
    /\ \E text \in ParseTexts \cup TaskTexts,
          mode \in { [layout |-> LayoutCalendar, updating |-> TRUE],
                     [layout |-> LayoutTasks(FALSE), updating |-> FALSE] } :
         app = [Started(TRUE, TRUE, TRUE) EXCEPT
                  !.app_layout = mode.layout,
                  !.updating_event_or_task = mode.updating,
                  !.inputting = TRUE,
                  !.input_buffer = text,
                  !.cursor_index = Len(text)]
    /\ disk = [events_file |-> app.events_cache,
               tasks_file |-> app.tasks_cache]
    /\ evFetches = {}
    /\ tkFetches = {}
    /\ muts = {}
    /\ fbWaiters = <<>>
    /\ remote = [events |-> InitRemoteEvents, tasks |-> InitRemoteTasks]
    /\ view = NoFrame
    /\ limits = [mutations |-> MaxEditMutations, manual |-> 0, months |-> 0]

NextTotal ==
    NoKey \/ InputEnter \/ InputEsc \/ MutationReturns \/ FeedbackSend

SpecTotal == InitTotal /\ [][NextTotal]_vars

IsText(s) == DOMAIN s = 1..Len(s)

IsNaiveDate(d) == d.m \in 1..12 /\ d.d \in 1..DaysInMonth(d.y, d.m)

IsOptionalDate(o) == o = NoneV \/ (Len(o) = 1 /\ IsNaiveDate(o[1]))

IsOptionalDateTime(o) ==
    o = NoneV \/ (Len(o) = 1 /\ IsNaiveDate(o[1].date)
                             /\ o[1].h \in 0..23 /\ o[1].mi \in 0..59)

\* C25: no step of a submit raises, whatever the text; parse_time_range
\* gives a title and four optional values for the text of every update of
\* an event, and with none of the four present (no pattern matched, or
\* the matched values named no date or time) the title is the whole text
\* and the patch carries that title alone; parse_date_and_note gives a
\* title and two optional texts for every new task, and with neither
\* present the title is the whole text
C25_ParsersTotal ==
    [][/\ app.inputting => ~app'.panicked
       /\ \A t \in muts' \ muts :
            LET input == Trim(app.input_buffer)
            IN /\ t.payload # NoneV
               /\ t.op = "patch_event" =>
                    LET r == parse_time_range(input, app.current_date)
                        nothing == /\ r.start = NoneV /\ r.end = NoneV
                                   /\ r.start_date = NoneV /\ r.end_date = NoneV
                    IN /\ IsText(r.summary)
                       /\ IsOptionalDateTime(r.start) /\ IsOptionalDateTime(r.end)
                       /\ IsOptionalDate(r.start_date) /\ IsOptionalDate(r.end_date)
                       /\ Matching(input) = {} => nothing
                       /\ nothing =>
                            /\ r.summary = input
                            /\ t.payload[1] = [summary |-> Some(input),
                                               start |-> NoneV, end |-> NoneV]
               /\ t.op = "insert_task" =>
                    LET r == parse_date_and_note(input, app.current_date.y)
                    IN /\ IsText(r.title)
                       /\ r.due = NoneV \/ (Len(r.due) = 1 /\ IsText(r.due[1]))
                       /\ r.notes = NoneV \/ (Len(r.notes) = 1 /\ IsText(r.notes[1]))
                       /\ t.payload[1] = [title |-> Some(r.title), due |-> r.due,
                                          notes |-> r.notes]
                       /\ (PrefixToks(input) = {} /\ MarkedAt(input) = {})
                            => (r.due = NoneV /\ r.notes = NoneV)
                       /\ (r.due = NoneV /\ r.notes = NoneV) => r.title = input]_vars

\* a patch of the selected event is in flight for "2/30 x": the whole text
\* is the title and nothing else is set
C25_Witness ==
    \E t \in muts :
        /\ t.op = "patch_event"
        /\ t.title = TokBadDate \o <<" ">> \o TokTitle
        /\ t.payload[1] = [summary |-> Some(t.title), start |-> NoneV, end |-> NoneV]

\* C29: whenever a cache document changes on disk, what was written is the
\* snapshot of a fetch that has just ended with every list call answered:
\* the events of every calendar, or the tasks of every task list, as the
\* remote held them when the fetch asked
C29_SavedOnlyAfterSuccessfulFetch ==
    [][/\ disk'.events_file # disk.events_file =>
            \E t \in evFetches \ evFetches' :
                disk'.events_file = fetch_events(EmptyMap, Calendars, t.seen, {})
       /\ disk'.tasks_file # disk.tasks_file =>
            \E t \in tkFetches \ tkFetches' :
                disk'.tasks_file = fetch_tasks(<<>>, TaskLists, t.seen, {})]_vars

\* ---------------------------------------------------------------------
\* Snapshots of the events refresh: the remote lists events of every kind
\* of start, and the user refreshes.
\* the starts an api::Event can have: an instant half an hour after local
\* midnight of tomorrow (still today in UTC), an instant at local noon of
\* today, the all-day dates today and tomorrow, no start, a start with
\* neither field, and a start with both
StartKinds ==
    { Some([date |-> NoneV,
            date_time |-> Some(to_utc([date |-> Succ(Today), h |-> 0, mi |-> 30]))]),
      Some([date |-> NoneV,
            date_time |-> Some(to_utc([date |-> Today, h |-> 12, mi |-> 0]))]),
      Some([date |-> Some(Today), date_time |-> NoneV]),
      Some([date |-> Some(Succ(Today)), date_time |-> NoneV]),
      NoneV,
      Some([date |-> NoneV, date_time |-> NoneV]),
      Some([date |-> Some(Succ(Succ(Today))),
            date_time |-> Some(to_utc([date |-> Today, h |-> 12, mi |-> 0]))]) }

MaxListing == 3

\* the listings of one calendar: up to MaxListing events, the i-th with
\* the id `base + i`
Listings(base) ==
    UNION { { [i \in 1..n |-> [id |-> Some(base + i), summary |-> NoneV,
                               start |-> starts[i]]] :
                starts \in [1..n -> StartKinds] } :
            n \in 0..MaxListing }

InitSnapshot ==
    /\ \E primary \in Listings(0), work \in Listings(5) :
         /\ Len(work) <= 1
         /\ remote = [events |-> [c \in {"primary", "work"} |->
                                     IF c = "primary" THEN primary ELSE work],
                      tasks |-> InitRemoteTasks]
    /\ app = [Started(TRUE, FALSE, FALSE) EXCEPT !.events_cache = EmptyMap]
    /\ disk = [events_file |-> EmptyMap, tasks_file |-> <<>>]
    /\ evFetches = {}
    /\ tkFetches = {}
    /\ muts = {}
    /\ fbWaiters = <<>>
    /\ view = NoFrame
    /\ limits = [mutations |-> 0, manual |-> 1, months |-> 0]

NextSnapshot ==
    \/ NoKey \/ KeyRefresh
    \/ FetchEventsCalls \/ FetchEventsOk \/ FetchEventsFail

SpecSnapshot == InitSnapshot /\ [][NextSnapshot]_vars

\* the entries a refresh makes of the listings of the calendars that
\* answered, in the order the calendars are asked and each listing is read
RECURSIVE ListedFrom(_, _)
ListedFrom(cals, failed) ==
    IF cals = <<>> THEN <<>>
    ELSE (IF Head(cals) \in failed THEN <<>>
          ELSE [i \in DOMAIN remote.events[Head(cals)] |->
                   [ev |-> remote.events[Head(cals)][i],
                    cal |-> urlencoding_encode(Head(cals))]])
         \o ListedFrom(Tail(cals), failed)

\* the event starts on the date d: d is the local day that holds its
\* instant, or, for an event with no instant, its all-day date
ResolvesTo(ev, d) ==
    /\ ev.start # NoneV
    /\ IF ev.start[1].date_time # NoneV
       THEN /\ DayNum(d) * 1440 <= ev.start[1].date_time[1] + app_tz
            /\ ev.start[1].date_time[1] + app_tz < (DayNum(d) + 1) * 1440
       ELSE ev.start[1].date = Some(d)

NearDates == { AddDays(Today, k) : k \in 0..3 } \cup {Pred(Today)}

\* the snapshot of a refresh in which the calendars `failed` did not
\* answer: under each date the entries that start on it, in listing order
ExpectedSnapshot(failed) ==
    LET listed == ListedFrom(Calendars, failed)
    IN [d \in { n \in NearDates :
                  \E i \in DOMAIN listed : ResolvesTo(listed[i].ev, n) } |->
            SelectSeq(listed, LAMBDA e : ResolvesTo(e.ev, d))]

IsSnapshot(map) ==
    \E failed \in SUBSET SeqToSet(Calendars) : map = ExpectedSnapshot(failed)

\* C30: every snapshot of an events refresh (the one written to disk, the
\* one waiting on the channel, the one installed as events_cache) holds,
\* under each date, exactly the listed events that start on it (the local
\* date of a timed start, the date of an all-day start), in the order of
\* the listing, each event once, and no event without such a start
C30_SnapshotKeyedByLocalStart ==
    /\ IsSnapshot(disk.events_file)
    /\ IsSnapshot(app.events_cache)
    /\ \A i \in DOMAIN app.events_update_rx.buf :
          app.events_update_rx.buf[i].map =
              ExpectedSnapshot(app.events_update_rx.buf[i].failed)

\* the installed snapshot lists under tomorrow the event that starts half
\* an hour after local midnight (still today in UTC) and, after it, the
\* all-day event of tomorrow; the listing holds an event with no start
C30_Witness ==
    /\ Succ(Today) \in DOMAIN app.events_cache
    /\ Len(app.events_cache[Succ(Today)]) = 2
    /\ app.events_cache[Succ(Today)][1].ev.start[1].date_time =
           Some(to_utc([date |-> Succ(Today), h |-> 0, mi |-> 30]))
    /\ app.events_cache[Succ(Today)][2].ev.start[1] =
           [date |-> Some(Succ(Today)), date_time |-> NoneV]
    /\ \E i \in DOMAIN remote.events["primary"] :
           remote.events["primary"][i].start = NoneV

\* ---------------------------------------------------------------------
\* The order inside one tick: the calendar handle has resolved and its
\* first snapshot is installed, the tasks handle is still being acquired,
\* and the delete of today's event is in flight.
InitTick ==
    /\ app = [Started(TRUE, FALSE, TRUE) EXCEPT
                !.tasks_hub_rx = "waiting",
                !.g_mutCount = 1]
    /\ disk = [events_file |-> app.events_cache,
               tasks_file |-> app.tasks_cache]
    /\ evFetches = {}
    /\ tkFetches = {}
    /\ muts = { Mutation([app EXCEPT !.g_mutCount = 0], "delete_event",
                         "primary", Some(1), <<>>, NoneV) }
    /\ fbWaiters = <<>>
    /\ remote = [events |-> InitRemoteEvents, tasks |-> InitRemoteTasks]
    /\ view = NoFrame
    /\ limits = [mutations |-> 1, manual |-> MaxManual, months |-> 0]

NextTick ==
    \/ NoKey \/ KeyRefresh \/ AuthTasks
    \/ FetchEventsCalls \/ FetchEventsOk \/ FetchTasksCalls \/ FetchTasksOk
    \/ MutationReturns \/ FeedbackSend

SpecTick == InitTick /\ [][NextTick]_vars

\* the step asks for a refresh: 'R' was pressed, or a feedback message
\* was received
RefreshRequested ==
    app'.g_manual # app.g_manual \/ app'.g_installed # app.g_installed

\* C31: a step that starts a fetch (only a tick does) has first received
\* what each of the five channels held, the events snapshot, the tasks
\* snapshot, one feedback message and the two handles, so a snapshot that
\* was waiting is installed and not lost with its channel; one message at
\* most is taken from the feedback channel; a refresh asked for by a
\* feedback message or by 'R' is started in that same tick for every
\* handle present after the poll, once more than the fetch the handle
\* itself starts, and needs_refresh is never left set
C31_PollThenRefresh ==
    [][/\ ~app'.needs_refresh
       /\ (app'.g_evGen # app.g_evGen \/ app'.g_tkGen # app.g_tkGen) =>
            /\ app.events_update_rx.buf # <<>> =>
                   app'.events_cache = app.events_update_rx.buf[1].map
            /\ app.tasks_update_rx.buf # <<>> =>
                   app'.tasks_cache = app.tasks_update_rx.buf[1].all_tasks
            /\ app.change_feedback_rx # <<>> =>
                   /\ app.change_feedback_rx[1].id \in app'.g_installed
                   /\ app'.changing_status.text = app.change_feedback_rx[1].text
            /\ app.tasks_hub_rx \in {"some", "none"} =>
                   app'.tasks_hub_rx = "closed"
       /\ app'.g_installed # app.g_installed =>
            /\ Cardinality(app'.g_installed \ app.g_installed) = 1
            /\ app'.change_feedback_rx = <<>>
            /\ fbWaiters' = fbWaiters
       /\ RefreshRequested =>
            /\ app'.event_hub => app'.g_evGen = app.g_evGen + 1
            /\ app'.task_hub =>
                   app'.g_tkGen = app.g_tkGen +
                       (IF app.tasks_hub_rx = "some" THEN 2 ELSE 1)]_vars

\* the tick that received the feedback of the delete also received the
\* tasks handle: the handle's fetch and the refresh's fetch were both
\* started, and the refresh replaced the events channel after the
\* snapshot waiting on it was installed
C31_Witness ==
    /\ app.g_installed # {}
    /\ app.g_manual = 0
    /\ app.tasks_hub_rx = "closed"
    /\ app.g_tkGen = 2
    /\ { t.pc : t \in tkFetches } = {"fetch"}
    /\ Cardinality(tkFetches) = 2

\* ---------------------------------------------------------------------
\* Navigation of the calendar: every date key, from every date of two
\* years (2020 is a leap year).
NavYears == 2020..2021

InitNavigate ==
    /\ app = Started(TRUE, TRUE, TRUE)
    /\ disk = [events_file |-> app.events_cache,
               tasks_file |-> app.tasks_cache]
    /\ evFetches = {}
    /\ tkFetches = {}
    /\ muts = {}
    /\ fbWaiters = <<>>
    /\ remote = [events |-> InitRemoteEvents, tasks |-> InitRemoteTasks]
    /\ view = NoFrame
    /\ limits = [mutations |-> 0, manual |-> 0, months |-> 0,
                 years |-> NavYears]

NextNavigate ==
    \/ KeyLeft \/ KeyRight \/ KeyUp \/ KeyDown
    \/ KeyNextMonth \/ KeyPrevMonth \/ KeyNextYear \/ KeyPrevYear
    \/ KeyToday \/ NoKey

SpecNavigate == InitNavigate /\ [][NextNavigate]_vars

\* current_date moves by n days
MovedDays(n) == DayNum(app'.current_date) = DayNum(app.current_date) + n

\* current_date moves by n calendar months: to the same day of the month
\* n months away where that month has such a day, and to its last day
\* where it has not
MovedMonths(n) ==
    /\ MonthIndex(app'.current_date) = MonthIndex(app.current_date) + n
    /\ IF app.current_date.d <= DaysInMonth(app'.current_date.y, app'.current_date.m)
       THEN app'.current_date.d = app.current_date.d
       ELSE app'.current_date.d =
                DaysInMonth(app'.current_date.y, app'.current_date.m)

\* focus, cursor, both caches and the edit state stay as they are
NavigationFrame ==
    /\ app'.app_layout = app.app_layout
    /\ app'.cursor_line = app.cursor_line
    /\ app'.events_cache = app.events_cache
    /\ app'.tasks_cache = app.tasks_cache
    /\ app'.inputting = app.inputting
    /\ app'.input_buffer = app.input_buffer
    /\ app'.cursor_index = app.cursor_index
    /\ app'.updating_event_or_task = app.updating_event_or_task

\* C32: with the calendar focused and no edit open, Left and Right move
\* current_date by one day back and forth, Up and Down by seven days, '<'
\* and '>' by one calendar month, 'Y' and 'y' by twelve, each keeping the
\* day of the month where the target month has it, and 't' sets it to
\* today; every one of these keys leaves focus, cursor, caches and edit
\* state alone
C32_CalendarNavigation ==
    [][(app.app_layout = LayoutCalendar /\ ~app.inputting) =>
          /\ KeyLeft => MovedDays(0 - 1)
          /\ KeyRight => MovedDays(1)
          /\ KeyUp => MovedDays(0 - 7)
          /\ KeyDown => MovedDays(7)
          /\ KeyNextMonth => MovedMonths(1)
          /\ KeyPrevMonth => MovedMonths(0 - 1)
          /\ KeyNextYear => MovedMonths(12)
          /\ KeyPrevYear => MovedMonths(0 - 12)
          /\ KeyToday => app'.current_date = app.today
          /\ NavigationFrame]_vars

\* the frame drawn last showed 2021-02-28 and the key read after it moved
\* current_date to 2020-02-28, twelve months back
C32_Witness ==
    /\ app.current_date = Date(2020, 2, 28)
    /\ view.drawn /\ view.date = Date(2021, 2, 28)

\* the buffer without its i-th character
WithoutChar(b, i) == SubSeq(b, 1, i - 1) \o SubSeq(b, i + 1, Len(b))

\* C33: each edit key acts at the caret, counted in characters: a typed
\* character is put at position caret and the caret moves on by one;
\* Backspace at 0 does nothing and otherwise removes the character before
\* the caret and moves the caret back by one; Delete at the end does
\* nothing and otherwise removes the character at the caret; Ctrl-U
\* removes the characters before the caret and sets the caret to 0;
\* Ctrl-K removes the characters from the caret on; the other characters
\* stay in their order
C33_EditsAtCodepoints ==
    [][app.inputting =>
          LET b == app.input_buffer
              c == app.cursor_index
          IN /\ (InputChar \/ InputWideChar) =>
                   /\ c <= Len(b)
                   /\ Len(app'.input_buffer) = Len(b) + 1
                   /\ WithoutChar(app'.input_buffer, c + 1) = b
                   /\ app'.cursor_index = c + 1
             /\ InputBackspace =>
                   IF c = 0
                   THEN app'.input_buffer = b /\ app'.cursor_index = 0
                   ELSE /\ c <= Len(b)
                        /\ app'.input_buffer = WithoutChar(b, c)
                        /\ app'.cursor_index = c - 1
             /\ InputDelete =>
                   IF c >= Len(b)
                   THEN app'.input_buffer = b /\ app'.cursor_index = c
                   ELSE /\ app'.input_buffer = WithoutChar(b, c + 1)
                        /\ app'.cursor_index = c
             /\ InputKillBefore =>
                   /\ c <= Len(b)
                   /\ app'.input_buffer = SubSeq(b, c + 1, Len(b))
                   /\ app'.cursor_index = 0
             /\ InputKillAfter =>
                   /\ c <= Len(b)
                   /\ app'.input_buffer = SubSeq(b, 1, c)
                   /\ app'.cursor_index = c]_vars


\* ------------------------------------------------- C34, C35: the cache
\* replaced while an edit session is open
\* the remote as it was when the cache file was last written: two titled
\* events on the selected day and two titled tasks
EarlierRemote ==
    [events |->
        [c \in {"primary", "work"} |->
            IF c = "primary"
            THEN InitRemoteEvents[c] \o
                   << [id |-> Some(3), summary |-> Some(<<"y">>),
                       start |-> Some([date |-> Some(Today),
                                       date_time |-> NoneV])] >>
            ELSE InitRemoteEvents[c]],
     tasks |->
        [l \in {"list1"} |->
            InitRemoteTasks[l] \o
              << [id |-> Some(2), title |-> Some(<<"y">>),
                  status |-> Some("needsAction")] >>]]

\* what the remote holds by the time the program starts: the same items,
\* the first event of the day and the first task gone, or both of each gone
LaterRemotes ==
    { [events |-> [EarlierRemote.events EXCEPT
                      !["primary"] = SubSeq(@, k, Len(@))],
       tasks |-> [EarlierRemote.tasks EXCEPT
                      !["list1"] = SubSeq(@, k, Len(@))]] : k \in 1..3 }

\* the state once both handles have resolved present at startup: the
\* cache is the one loaded from the file, the first refresh of each kind
\* is in flight
InitStale ==
    /\ app = [Started(TRUE, TRUE, TRUE) EXCEPT
                !.events_cache =
                    fetch_events(EmptyMap, Calendars, EarlierRemote.events, {}),
                !.tasks_cache =
                    fetch_tasks(<<>>, TaskLists, EarlierRemote.tasks, {}),
                !.g_events_src = [gen |-> 0, failed |-> {}],
                !.g_tasks_src = [gen |-> 0, failed |-> {}]]
    /\ disk = [events_file |-> app.events_cache,
               tasks_file |-> app.tasks_cache]
    /\ evFetches = {[gen |-> 1, chan |-> 1, pc |-> "fetch", seen |-> <<>>]}
    /\ tkFetches = {[gen |-> 1, chan |-> 1, pc |-> "fetch", seen |-> <<>>]}
    /\ muts = {}
    /\ fbWaiters = <<>>
    /\ remote \in LaterRemotes
    /\ view = NoFrame
    /\ limits = [mutations |-> 1, manual |-> 0, months |-> 0]

\* edit sessions opened in the overlays while the first refreshes complete
NextStale ==
    \/ NoKey \/ KeyToggleEvents \/ KeyToggleTasks
    \/ KeyStartEdit \/ KeyOpenInput \/ InputChar \/ InputEnter \/ InputEsc
    \/ FetchEventsCalls \/ FetchEventsOk \/ FetchTasksCalls \/ FetchTasksOk
    \/ MutationReturns \/ FeedbackSend

SpecStale == InitStale /\ [][NextStale]_vars

\* C34: a patch dispatched by the submit of an update session targets the
\* item whose title the session was pre-filled from (its id, in its
\* calendar or task list), also when a refresh result was installed
\* between the start of the session and the submit.
C34_PatchesPrefilledItem ==
    [][ \A t \in muts' \ muts :
            t.op \in {"patch_task", "patch_event"} =>
                /\ app.g_prefilled # NoneV
                /\ t.target = app.g_prefilled[1].id
                /\ t.coll = app.g_prefilled[1].coll ]_vars

\* C35: the submit of a buffer that is not blank, the needed handle
\* present, dispatches exactly one mutation, in update mode as in create
\* mode, also when the cache was replaced during the session.
C35_SubmitDispatchesOne ==
    [][ (Trim(app.input_buffer) # <<>> /\ InputEnter) =>
            /\ ~app'.panicked
            /\ Cardinality(muts' \ muts) = 1 ]_vars

\* C36: once every background refresh of a kind has completed and its
\* last result has been drained, the persisted snapshot of that kind
\* equals the cache in memory, whatever order the fetches completed in.
C36_PersistedMatchesCache ==
    /\ (evFetches = {} /\ app.events_update_rx.buf = <<>>) =>
            disk.events_file = app.events_cache
    /\ (tkFetches = {} /\ app.tasks_update_rx.buf = <<>>) =>
            disk.tasks_file = app.tasks_cache

\* ------------------------------------------------- C37: the refresh
\* that follows a mutation
\* the scenario of SpecTick, the ticks of the loop and the background
\* tasks scheduled fairly (a remote call of a mutation may hang)
SpecTickLive ==
    /\ InitTick /\ [][NextTick]_vars
    /\ WF_vars(NoKey) /\ WF_vars(FeedbackSend)
    /\ WF_vars(FetchEventsCalls) /\ WF_vars(FetchEventsOk)

\* the delete of event 1 has completed successfully at the remote
DeleteCompleted ==
    \A i \in DOMAIN remote.events["primary"] :
        remote.events["primary"][i].id # Some(1)

\* the events cache lists event 1
EventOneCached ==
    \E date \in DOMAIN app.events_cache :
        \E i \in DOMAIN app.events_cache[date] :
            app.events_cache[date][i].ev.id = Some(1)

\* the status message of the delete has been received, which started a
\* refresh in that tick
RefreshFollowed == 1 \in app.g_installed

\* C37: after the delete of an event has completed successfully, its
\* message is eventually received and the tick that receives it starts an
\* events refresh; unless a further events refresh is started, the result
\* of that refresh, which no longer lists the event, is eventually
\* installed; once that refresh has started no snapshot that still lists
\* the event is installed.
C37_RefreshFollowsMutation ==
    /\ (DeleteCompleted /\ ~RefreshFollowed) ~> RefreshFollowed
    /\ [][ (~RefreshFollowed /\ RefreshFollowed') =>
              /\ app'.g_evGen = app.g_evGen + 1
              /\ \E t \in evFetches' \ evFetches :
                    t.gen = app'.g_evGen /\ t.pc = "fetch" ]_vars
    /\ \A g \in 1..(MaxManual + 2) :
          (DeleteCompleted /\ RefreshFollowed /\ app.g_evGen = g) ~>
              \/ app.g_evGen > g
              \/ app.g_events_src.gen = g /\ ~EventOneCached
    /\ [][ (DeleteCompleted /\ RefreshFollowed
               /\ app'.events_cache # app.events_cache) =>
              ~EventOneCached' ]_vars

\* the delete succeeded while an earlier refresh was in flight; the
\* result of that refresh was dropped and the snapshot of the refresh
\* that followed the delete is installed
C37_Witness ==
    /\ DeleteCompleted /\ RefreshFollowed
    /\ app.g_events_src.gen = app.g_evGen /\ ~EventOneCached
    /\ app.g_ev_dropped # {}

\* ------------------------------------------------- C38: the keys of an
\* edit session
\* after startup with two tasks: the overlays, the list cursor, edit
\* sessions opened from anywhere and every key of the input line
NextEditKeys ==
    \/ NoKey \/ KeyToggleEvents \/ KeyToggleTasks \/ KeyUp \/ KeyDown
    \/ KeyOpenInput \/ KeyStartEdit
    \/ InputChar \/ InputEnter \/ InputEsc
    \/ InputLeft \/ InputRight \/ InputBackspace \/ InputDelete
    \/ InputHome \/ InputEnd \/ InputKillBefore \/ InputKillAfter
    \/ MutationReturns \/ FeedbackSend

SpecEditKeys == InitCursor /\ [][NextEditKeys]_vars

\* the keys that have an arm in handle_key_event or in
\* input_handle_key_event, and a key that has none
EditKeys ==
    {"Esc", "C-c", "Enter", "Left", "Right", "Backspace", "Delete",
     "C-a", "C-e", "C-u", "C-k", "Up", "Down", "Tab",
     "q", "D", "E", "T", "R", "L", "a", "o", "t", ">", "<", "y", "Y",
     " ", "x"}

\* what every key leaves alone while the input line is open, the list
\* cursor apart: the layout, the date, the exit flag, the caches, the
\* refreshes; the only tasks spawned are inserts and patches; only Enter,
\* Esc and Ctrl-C close the input line
EditKeyFrame(b, key) ==
    /\ b.app_layout = app.app_layout
    /\ b.current_date = app.current_date
    /\ b.exit = app.exit
    /\ b.events_cache = app.events_cache
    /\ b.tasks_cache = app.tasks_cache
    /\ b.needs_refresh = app.needs_refresh
    /\ b.g_evGen = app.g_evGen /\ b.g_tkGen = app.g_tkGen
    /\ b.g_manual = app.g_manual
    /\ \A i \in DOMAIN b.spawned :
          /\ b.spawned[i].kind = "mut"
          /\ b.spawned[i].task.op \in
                {"insert_task", "insert_event", "patch_task", "patch_event"}
    /\ ~b.inputting => key \in {"Enter", "Esc", "C-c"}

\* the statement as written: no key of an edit session moves the list
\* cursor
C38_EditKeysKeepCursor ==
    (~Stopped /\ app.inputting) =>
        \A key \in EditKeys :
            LET b == input_handle_key_event(app, key) IN
            EditKeyFrame(b, key) /\ b.cursor_line = app.cursor_line

\* C38: while the input line is open no key changes the layout, the date
\* or the exit flag, none dispatches a delete, a toggle, a clear or a
\* refresh, and the input line is closed only by a tick that handles
\* Enter, Esc or Ctrl-C; the list cursor is left alone too, except that
\* the submit that inserts a task sets it to 0.
C38_EditKeysFrame ==
    /\ [](  (~Stopped /\ app.inputting) =>
              \A key \in EditKeys :
                 LET b == input_handle_key_event(app, key) IN
                 /\ EditKeyFrame(b, key)
                 /\ b.cursor_line # app.cursor_line =>
                       /\ key = "Enter" /\ b.cursor_line = 0
                       /\ \E i \in DOMAIN b.spawned :
                             b.spawned[i].task.op = "insert_task" )
    /\ [][ (app.inputting /\ ~app'.inputting) => (InputEnter \/ InputEsc) ]_vars

\* a new task is being typed in the Tasks overlay with the list cursor on
\* the second task
C38_Witness ==
    /\ app.inputting /\ ~app.updating_event_or_task
    /\ app.app_layout.tag = "Tasks" /\ app.cursor_line = 1
    /\ app.input_buffer = <<"x">> /\ app.task_hub

\* C39: while the Events or the Tasks overlay is focused (no edit session
\* open) no key changes current_date.
C39_OverlayKeysKeepDate ==
    (~Stopped /\ ~app.inputting /\ app.app_layout.tag \in {"Events", "Tasks"}) =>
        \A key \in EditKeys, overflow_checks \in BOOLEAN :
            handle_key_event(app, key, overflow_checks).current_date
                = app.current_date

\* the item at index min(cursor_line, len - 1) of a list, NoneV for the
\* empty list
ClampedItem(list, cursor_line) ==
    IF list = <<>> THEN NoneV
    ELSE Some(list[(IF cursor_line < Len(list) - 1 THEN cursor_line
                    ELSE Len(list) - 1) + 1])

\* C40: the selected event is the event at index min(cursor_line, len - 1)
\* of the selected day's events and the selected task the task at that
\* index of the task list, absent when the list is empty; the selected
\* index is in range also when cursor_line is past the end; the delete
\* key acts on that item.
C40_SelectionClamped ==
    /\ selected_event(app) = ClampedItem(current_day_events(app), app.cursor_line)
    /\ selected_task(app) = ClampedItem(app.tasks_cache, app.cursor_line)
    /\ selected_event_index(app) # NoneV =>
          selected_event_index(app)[1] \in 0..(Len(current_day_events(app)) - 1)
    /\ selected_task_index(app) # NoneV =>
          selected_task_index(app)[1] \in 0..(Len(app.tasks_cache) - 1)
    /\ selected_event_index(app) = NoneV <=> current_day_events(app) = <<>>
    /\ selected_task_index(app) = NoneV <=> app.tasks_cache = <<>>
    /\ (~Stopped /\ ~app.inputting /\ app.app_layout.tag = "Tasks") =>
          \A t \in SpawnedOf(handle_key_event(app, "D", FALSE), "mut") :
              /\ t.op = "delete_task"
              /\ t.target = ClampedItem(app.tasks_cache, app.cursor_line)[1].task.id

\* the Tasks overlay with the list cursor past the last task
C40_Witness ==
    /\ app.app_layout.tag = "Tasks" /\ ~Stopped
    /\ app.tasks_cache # <<>>
    /\ app.cursor_line > Len(app.tasks_cache) - 1

====
